---- MODULE Spec2Model ----
(***************************************************************************)
(* The two-stage classifier of wikipedia-ner and the dataset layer under   *)
(* it: DoubleStepClassifier (load_from_arrays, create_train_dataset,       *)
(* train), Dataset (next_batch, traverse_dataset, one-hot encoding), the   *)
(* MultilayerPerceptron batch-size precondition and the stratified split.  *)
(*                                                                         *)
(* Conventions.  A feature row is the 1-based number of the example in     *)
(* x_matrix; EmptyRow is the single zero-width row of csr_matrix([]).      *)
(* A label string is a natural number whose order is the order of the      *)
(* strings ('0' < '1'; '00' < '01' < '10' < '11'); a label CODE is the     *)
(* 0-based position numpy.unique gives the string.  A label row is the     *)
(* pair <<coarse code, fine code>>.  Python indices are 0-based, TLA+      *)
(* sequences 1-based: Take and Slice do the conversion.                    *)
(***************************************************************************)
EXTENDS Integers, Sequences, FiniteSets, TLC

VARIABLES
    pc,                 \* position of the DoubleStepClassifier / of the run
    dataset,            \* DoubleStepClassifier.dataset (None or a Dataset)
    classes,            \* DoubleStepClassifier.classes: <<coarse table, fine table>>
    unique_hl_labels,   \* DoubleStepClassifier.unique_hl_labels
    low_level_models,   \* DoubleStepClassifier.low_level_models: label -> classifier
    classifier_factory, \* the argument of train()
    loop_i,             \* position of train()'s for loop in unique_hl_labels
    hl_label,           \* the loop variable of train()
    new_dataset,        \* the local new_dataset / result of create_train_dataset
    classifier,         \* the local classifier of train()
    visited,            \* history: coarse labels the loop of train() has reached
    origin,             \* history: label row every feature row had in load_from_arrays
    ret,                \* what the last call returned (or raised)
    traversal,          \* history: the traversal before the one in ret
    epoch,              \* the loop variable of MultilayerPerceptron.train
    yago_labels,        \* split_dataset: the label column that is split on
    sizes,              \* split_dataset: train_size, test_size, validation_size
    validation_accuracy_record, \* MultilayerPerceptron: accuracies, in 1/1000
    evaluated,          \* history: the splits _evaluate was run on, in order
    train_loss_record,  \* MultilayerPerceptron: a loss stands as its iteration
    test_results        \* MultilayerPerceptron.test_results: the rows, in order

vars == <<pc, dataset, classes, unique_hl_labels, low_level_models,
          classifier_factory, loop_i, hl_label, new_dataset, classifier,
          visited, origin, ret, traversal, epoch, yago_labels, sizes,
          validation_accuracy_record, evaluated, train_loss_record,
          test_results>>

trainVars == <<validation_accuracy_record, evaluated, train_loss_record,
               test_results>>

splitVars == <<yago_labels, sizes>>

\* What the DoubleStepClassifier's train() leaves alone / what Dataset calls do.
loadVars == <<dataset, classes, unique_hl_labels, origin>>
loopVars == <<classifier_factory, loop_i, hl_label, classifier, visited>>

-----------------------------------------------------------------------------
(* Bounds of the model *)

MaxSplit == 3           \* longest split load_from_arrays is given
MaxBatch == 4           \* largest batch_size a call is given
MaxEpochs == 1          \* reshuffles of one Dataset that are followed
MaxTrainingEpochs == 5  \* training_epochs of the classifiers that are run

(* Program constants *)

EmptyRow == 0           \* the one zero-width row of csr_matrix([])
MinInstances == 2       \* create_train_dataset: "< 2" floor of every split
BatchCap == 2000        \* MLPFactory.get_classifier: min(train, 2000, validation)

HLLabels == {0, 1}      \* coarse label strings '0', '1'
SplitNames == {"train", "test", "validation"}

None == [kind |-> "None"]

-----------------------------------------------------------------------------
(* numpy on sequences *)

Range(s) == {s[i] : i \in DOMAIN s}

SeqsUpTo(S, n) == UNION {[1..k -> S] : k \in 0..n}

Min2(a, b) == IF a <= b THEN a ELSE b

\* numpy.unique(s): the distinct values, sorted.
Unique(s) ==
    LET S == Range(s)
    IN  CHOOSE u \in [1..Cardinality(S) -> S] :
            /\ Range(u) = S
            /\ \A i, j \in 1..Cardinality(S) : i < j => u[i] < u[j]

\* numpy.unique(..., return_inverse=True)[1]: the code of every element.
Inverse(s) ==
    LET u == Unique(s)
    IN  [i \in DOMAIN s |-> (CHOOSE k \in DOMAIN u : u[k] = s[i]) - 1]

\* numpy.arange(first, first + n)
Iota(first, n) == [k \in 1..n |-> first + k - 1]

\* a[indices] for a sequence of 0-based indices.
Take(a, indices) == [k \in 1..Len(indices) |-> a[indices[k] + 1]]

\* numpy.where(column == value)[0]: the 0-based positions of column that hold
\* value, increasing (scanned from the 1-based position i on).
RECURSIVE WhereFrom(_, _, _)
WhereFrom(column, value, i) ==
    IF i > Len(column) THEN <<>>
    ELSE (IF column[i] = value THEN <<i - 1>> ELSE <<>>)
            \o WhereFrom(column, value, i + 1)

\* labels[:, level]: one column of a label matrix.
Column(labels, level) == [i \in DOMAIN labels |-> labels[i][level + 1]]

\* a[start:end] with Python's clipping of end.
Slice(a, start, end) ==
    LET e == Min2(end, Len(a))
    IN  IF start >= e THEN <<>> ELSE [k \in 1..(e - start) |-> a[start + k]]

-----------------------------------------------------------------------------
(* Dataset *)

DataTuple(data, labels) == [data |-> data, labels |-> labels]

\* Dataset.load_from_arrays binds the six arrays as they are given; the
\* cursor and the epoch counter start at 0 as in Dataset.__init__.
DatasetFromArrays(cls, train_dataset, test_dataset, validation_dataset, train_labels, test_labels, validation_labels) ==
    [kind |-> "Dataset",
     classes |-> cls,
     train_dataset |-> train_dataset,
     train_labels |-> train_labels,
     datasets |-> [n \in SplitNames |->
                    CASE n = "train" -> DataTuple(train_dataset, train_labels)
                      [] n = "test" -> DataTuple(test_dataset, test_labels)
                      [] n = "validation" ->
                            DataTuple(validation_dataset, validation_labels)],
     epochs_completed |-> 0,
     index_in_epoch |-> 0]

\* Dataset.num_examples: the number of label rows of the split.
num_examples(ds, dataset_name) == Len(ds.datasets[dataset_name].labels)

\* Dataset.output_size: the number of classes of the level (0 coarse, 1 fine).
output_size(ds, cl_iteration) == Len(ds.classes[cl_iteration + 1])

-----------------------------------------------------------------------------
(* DoubleStepClassifier.load_from_arrays *)

\* The degenerate split: csr_matrix([]) has shape (1, 0), the labels are [].
SplitData(x_matrix, indices) ==
    IF Len(indices) > 0 THEN Take(x_matrix, indices) ELSE <<EmptyRow>>

SplitLabels(integer_labels, indices) ==
    IF Len(indices) > 0 THEN Take(integer_labels, indices) ELSE <<>>

ClassTables(hl_labels, ll_labels) == <<Unique(hl_labels), Unique(ll_labels)>>

IntegerLabels(hl_labels, ll_labels) ==
    [i \in DOMAIN hl_labels |-> <<Inverse(hl_labels)[i], Inverse(ll_labels)[i]>>]

LoadFromArrays(x_matrix, hl_labels, ll_labels, train_indices, test_indices, validation_indices) ==
    LET cls == ClassTables(hl_labels, ll_labels)
        integer_labels == IntegerLabels(hl_labels, ll_labels)
    IN  [classes |-> cls,
         dataset |-> DatasetFromArrays(cls,
                        Take(x_matrix, train_indices),
                        SplitData(x_matrix, test_indices),
                        SplitData(x_matrix, validation_indices),
                        Take(integer_labels, train_indices),
                        SplitLabels(integer_labels, test_indices),
                        SplitLabels(integer_labels, validation_indices)),
         unique_hl_labels |-> Unique(hl_labels)]

-----------------------------------------------------------------------------
(* DoubleStepClassifier.create_train_dataset *)

\* _filter_dataset: the rows of one split whose coarse code is target_label,
\* features and labels selected by the same index array.
FilterIndices(ds, dataset_name, target_label) ==
    WhereFrom(Column(ds.datasets[dataset_name].labels, 0), target_label, 1)

\* Mutant: the rows of every split are taken from the train split.
FilterDataset_FromTrain(ds, dataset_name, target_label) ==
    LET indices == FilterIndices(ds, "train", target_label)
    IN  DataTuple(Take(ds.datasets["train"].data, indices),
                  Take(ds.datasets["train"].labels, indices))

FilterDataset(ds, dataset_name, target_label) ==
    LET indices == FilterIndices(ds, dataset_name, target_label)
    IN  DataTuple(Take(ds.datasets[dataset_name].data, indices),
                  Take(ds.datasets[dataset_name].labels, indices))

\* numpy.where(self.classes[0][0] == target_label)[0][0]
TargetLabelIndex(cls, target_label) ==
    (CHOOSE k \in DOMAIN cls[1] : cls[1][k] = target_label) - 1

\* Mutant: the floor is not applied to the test split.
TooSmall_TestUnchecked(train, test, validation) ==
    \/ Len(validation.data) < MinInstances
    \/ Len(train.data) < MinInstances

\* Mutant: the floor is not applied to the train split.
TooSmall_TrainUnchecked(train, test, validation) ==
    \/ Len(validation.data) < MinInstances
    \/ Len(test.data) < MinInstances

TooSmall(train, test, validation) ==
    \/ Len(validation.data) < MinInstances
    \/ Len(test.data) < MinInstances
    \/ Len(train.data) < MinInstances

\* Mutant: the sub-dataset gets a class table of its own, cut down to the
\* coarse label it was filtered by.
CreateTrainDataset_OwnClasses(ds, cls, target_label) ==
    LET target_label_index == TargetLabelIndex(cls, target_label)
        train == FilterDataset(ds, "train", target_label_index)
        test == FilterDataset(ds, "test", target_label_index)
        validation == FilterDataset(ds, "validation", target_label_index)
    IN  IF TooSmall(train, test, validation)
        THEN None
        ELSE DatasetFromArrays(<<<<target_label>>, cls[2]>>,
                               train.data, test.data, validation.data,
                               train.labels, test.labels, validation.labels)

CreateTrainDataset(ds, cls, target_label) ==
    LET target_label_index == TargetLabelIndex(cls, target_label)
        train == FilterDataset(ds, "train", target_label_index)
        test == FilterDataset(ds, "test", target_label_index)
        validation == FilterDataset(ds, "validation", target_label_index)
    IN  IF TooSmall(train, test, validation)
        THEN None
        ELSE DatasetFromArrays(cls, train.data, test.data, validation.data,
                               train.labels, test.labels, validation.labels)

-----------------------------------------------------------------------------
(* Dataset.next_batch, Dataset.traverse_dataset, one-hot encoding *)

\* Mutant: the diagonal is shifted by one column.
Eye_Shifted(n) == [r \in 0..(n - 1) |-> [c \in 0..(n - 1) |-> IF c = (r + 1) % n THEN 1 ELSE 0]]

\* numpy.eye(n): row r is the indicator vector of r (indices 0..n-1).
Eye(n) == [r \in 0..(n - 1) |-> [c \in 0..(n - 1) |-> IF r = c THEN 1 ELSE 0]]

\* _one_hot_encoding: numpy.eye(output_size)[slice_]
one_hot_encoding(ds, slice, cl_iteration) ==
    [k \in DOMAIN slice |-> Eye(output_size(ds, cl_iteration))[slice[k]]]

\* numpy.argmax of a vector indexed from 0: the first index of the maximum.
ArgMax(v) ==
    CHOOSE i \in DOMAIN v :
        /\ \A j \in DOMAIN v : v[j] <= v[i]
        /\ \A j \in DOMAIN v : j < i => v[j] < v[i]

\* The outcomes of numpy.random.shuffle(numpy.arange(n)).
ShuffledArange(n) ==
    {p \in [1..n -> 0..(n - 1)] : \A i, j \in 1..n : i # j => p[i] # p[j]}

\* Mutant: the epoch already ends when the cursor reaches the end.
Overruns_AtEnd(ds, batch_size) ==
    ds.index_in_epoch + batch_size >= num_examples(ds, "train")

\* next_batch: the cursor would overrun the train split.
Overruns(ds, batch_size) ==
    ds.index_in_epoch + batch_size > num_examples(ds, "train")

\* The permutations a call can draw: none is drawn unless the cursor overruns.
Shuffles(ds, batch_size) ==
    IF Overruns(ds, batch_size)
    THEN ShuffledArange(num_examples(ds, "train"))
    ELSE {Iota(0, num_examples(ds, "train"))}

\* Mutant: the reshuffle keeps only the rows of the batch it serves.
Advance_DropsTail(ds, batch_size, perm) ==
    IF Overruns(ds, batch_size)
    THEN [ds EXCEPT !.epochs_completed = @ + 1,
                    !.train_dataset = Slice(Take(@, perm), 0, batch_size),
                    !.train_labels = Slice(Take(@, perm), 0, batch_size),
                    !.index_in_epoch = batch_size]
    ELSE [ds EXCEPT !.index_in_epoch = @ + batch_size]

\* Mutant: the reshuffle permutes the features and leaves the labels in place.
Advance_LabelsInPlace(ds, batch_size, perm) ==
    IF Overruns(ds, batch_size)
    THEN [ds EXCEPT !.epochs_completed = @ + 1,
                    !.train_dataset = Take(@, perm),
                    !.index_in_epoch = batch_size]
    ELSE [ds EXCEPT !.index_in_epoch = @ + batch_size]

\* next_batch: the Dataset after the call, perm being the shuffled arange.
Advance(ds, batch_size, perm) ==
    IF Overruns(ds, batch_size)
    THEN [ds EXCEPT !.epochs_completed = @ + 1,
                    !.train_dataset = Take(@, perm),
                    !.train_labels = Take(@, perm),
                    !.index_in_epoch = batch_size]
    ELSE [ds EXCEPT !.index_in_epoch = @ + batch_size]

\* Mutant: "start = 0" is missing, the batch starts at the old cursor.
BatchStart_OldCursor(ds, batch_size) == ds.index_in_epoch

\* next_batch: the local start.
BatchStart(ds, batch_size) ==
    IF Overruns(ds, batch_size) THEN 0 ELSE ds.index_in_epoch

\* Mutant: the assertion is missing, a batch larger than the train split is
\* served short.
NextBatchResult_ShortBatch(ds, batch_size, cl_iteration, perm) ==
    LET after == Advance(ds, batch_size, perm)
        start == BatchStart(ds, batch_size)
        end == after.index_in_epoch
    IN  [kind |-> "next_batch",
         batch_size |-> batch_size,
         cl_iteration |-> cl_iteration,
         data |-> Slice(after.train_dataset, start, end),
         labels |-> one_hot_encoding(after,
                        Column(Slice(after.train_labels, start, end),
                               cl_iteration),
                        cl_iteration)]

\* next_batch: what the call returns, or the AssertionError of
\* "assert batch_size <= self.num_examples()" after the reshuffle.
NextBatchResult(ds, batch_size, cl_iteration, perm) ==
    LET after == Advance(ds, batch_size, perm)
        start == BatchStart(ds, batch_size)
        end == after.index_in_epoch
    IN  IF Overruns(ds, batch_size) /\ batch_size > num_examples(ds, "train")
        THEN [kind |-> "raise", error |-> "AssertionError"]
        ELSE [kind |-> "next_batch",
              batch_size |-> batch_size,
              cl_iteration |-> cl_iteration,
              data |-> Slice(after.train_dataset, start, end),
              labels |-> one_hot_encoding(after,
                            Column(Slice(after.train_labels, start, end),
                                   cl_iteration),
                            cl_iteration)]

\* Mutant: the last step is left out.
Arange_Short(start, stop, step) ==
    IF start + step >= stop THEN <<>>
    ELSE [k \in 1..((stop - start - 1) \div step) |-> start + (k - 1) * step]

\* numpy.arange(start, stop, step)
RECURSIVE Arange(_, _, _)
Arange(start, stop, step) ==
    IF start >= stop THEN <<>>
    ELSE <<start>> \o Arange(start + step, stop, step)

\* Mutant: the traversal reads the live (reshuffled) train arrays.
traverse_dataset_Live(ds, dataset_name, batch_size) ==
    LET data == IF dataset_name = "train" THEN ds.train_dataset
                ELSE ds.datasets[dataset_name].data
        steps == Arange(0, Len(data), batch_size)
    IN  [k \in DOMAIN steps |->
            <<steps[k],
              Slice(data, steps[k], Min2(steps[k] + batch_size, Len(data)))>>]

\* traverse_dataset, run to its end: the sequence of pairs it yields.
traverse_dataset(ds, dataset_name, batch_size) ==
    LET data == ds.datasets[dataset_name].data
        steps == Arange(0, Len(data), batch_size)
    IN  [k \in DOMAIN steps |->
            <<steps[k],
              Slice(data, steps[k], Min2(steps[k] + batch_size, Len(data)))>>]

-----------------------------------------------------------------------------
(* MultilayerPerceptron construction and MLPFactory *)

\* Mutant: the test and validation splits are checked whatever their size.
check_batch_size_AllSplits(batch_size, ds) ==
    /\ batch_size <= num_examples(ds, "train")
    /\ batch_size <= num_examples(ds, "test")
    /\ batch_size <= num_examples(ds, "validation")

\* check_batch_size: TRUE when none of its three assertions fails.
check_batch_size(batch_size, ds) ==
    /\ batch_size <= num_examples(ds, "train")
    /\ (num_examples(ds, "test") > 1 => batch_size <= num_examples(ds, "test"))
    /\ (num_examples(ds, "validation") > 1
            => batch_size <= num_examples(ds, "validation"))

\* MLPFactory.get_classifier: the batch size it configures.
FactoryBatchSize(ds) ==
    Min2(Min2(num_examples(ds, "train"), BatchCap),
         num_examples(ds, "validation"))

\* get_classifier of the factory: the classifier, or the exception it raises.
\* The abstract ClassifierFactory raises NotImplementedError; MLPFactory builds
\* a MultilayerPerceptron, whose constructor starts with check_batch_size.
GetClassifierResult(factory, ds, experiment_name) ==
    IF factory = "ClassifierFactory"
    THEN [kind |-> "raise", error |-> "NotImplementedError"]
    ELSE IF ~check_batch_size(FactoryBatchSize(ds), ds)
    THEN [kind |-> "raise", error |-> "AssertionError"]
    ELSE [kind |-> "MultilayerPerceptron",
          dataset |-> ds,
          experiment_name |-> experiment_name,
          batch_size |-> FactoryBatchSize(ds),
          cl_iteration |-> 1]

Factories == {"ClassifierFactory", "MLPFactory"}

-----------------------------------------------------------------------------
(* The arrays load_from_arrays is given *)

\* Three consecutive blocks of examples; the coarse labels of the blocks are
\* tr, te and va, the fine label of an example refines its coarse label.
Arrays(tr, te, va) ==
    LET hl == tr \o te \o va
    IN  [x_matrix |-> Iota(1, Len(hl)),
         hl_labels |-> hl,
         ll_labels |-> [i \in DOMAIN hl |-> 2 * hl[i] + (i % 2)],
         train_indices |-> Iota(0, Len(tr)),
         test_indices |-> Iota(Len(tr), Len(te)),
         validation_indices |-> Iota(Len(tr) + Len(te), Len(va))]

\* DoubleStepClassifierTest.setUp
ScenarioA ==
    [x_matrix |-> Iota(1, 12),
     hl_labels |-> <<0, 0, 0, 1, 1, 1, 0, 0, 0, 1, 1, 0>>,
     ll_labels |-> <<0, 1, 1, 3, 2, 3, 0, 1, 1, 0, 3, 0>>,
     train_indices |-> <<0, 1, 2, 3, 4>>,
     test_indices |-> <<5, 6, 7>>,
     validation_indices |-> <<8, 9, 10, 11>>]

\* Arrays in which both coarse labels have 2 rows in every split.
TwoLabels == Arrays(<<0, 0, 1, 1>>, <<0, 0, 1, 1>>, <<0, 0, 1, 1>>)

LoadInputs ==
    {Arrays(tr, te, va) : tr, te, va \in SeqsUpTo(HLLabels, MaxSplit)}
        \cup {ScenarioA, TwoLabels}

Loaded(a) ==
    LoadFromArrays(a.x_matrix, a.hl_labels, a.ll_labels, a.train_indices,
                   a.test_indices, a.validation_indices)

OriginOf(a) ==
    [i \in DOMAIN a.x_matrix |-> IntegerLabels(a.hl_labels, a.ll_labels)[i]]

-----------------------------------------------------------------------------
(* DoubleStepClassifier: construction, load_from_arrays, train *)

Init ==
    /\ pc = "unloaded"
    /\ dataset = None
    /\ classes = None
    /\ unique_hl_labels = None
    /\ low_level_models = <<>>
    /\ classifier_factory = None
    /\ loop_i = 0
    /\ hl_label = None
    /\ new_dataset = None
    /\ classifier = None
    /\ visited = {}
    /\ origin = <<>>
    /\ ret = None
    /\ traversal = None
    /\ epoch = 0
    /\ yago_labels = <<>>
    /\ sizes = <<>>
    /\ validation_accuracy_record = <<>>
    /\ evaluated = <<>>
    /\ train_loss_record = <<>>
    /\ test_results = <<>>

Load ==
    /\ pc = "unloaded"
    /\ \E a \in LoadInputs :
        /\ dataset' = Loaded(a).dataset
        /\ classes' = Loaded(a).classes
        /\ unique_hl_labels' = Loaded(a).unique_hl_labels
        /\ origin' = OriginOf(a)
    /\ pc' = "loaded"
    /\ UNCHANGED <<low_level_models, new_dataset, loopVars, ret, traversal, epoch>>
    /\ UNCHANGED splitVars
    /\ UNCHANGED trainVars

\* train(classifier_factory) is entered; the for loop starts.
TrainCall ==
    /\ pc = "loaded"
    /\ \E f \in Factories : classifier_factory' = f
    /\ loop_i' = 1
    /\ pc' = "loop"
    /\ UNCHANGED <<loadVars, low_level_models, hl_label, new_dataset,
                   classifier, visited, ret, traversal, epoch>>
    /\ UNCHANGED splitVars
    /\ UNCHANGED trainVars

\* The for loop ends: train() returns.
TrainReturn ==
    /\ pc = "loop"
    /\ loop_i > Len(unique_hl_labels)
    /\ pc' = "done"
    /\ UNCHANGED <<loadVars, low_level_models, new_dataset, loopVars, ret,
                   traversal, epoch>>
    /\ UNCHANGED splitVars
    /\ UNCHANGED trainVars

\* Mutant: a null dataset ends the loop (break) instead of skipping the label.
AfterCreate_Break(nd) ==
    IF nd = None
    THEN /\ loop_i' = Len(unique_hl_labels) + 1
         /\ pc' = "loop"
    ELSE /\ loop_i' = loop_i
         /\ pc' = "get_classifier"

\* What the loop does after create_train_dataset returned nd:
\* "if not new_dataset: continue".
AfterCreate(nd) ==
    IF nd = None
    THEN /\ loop_i' = loop_i + 1
         /\ pc' = "loop"
    ELSE /\ loop_i' = loop_i
         /\ pc' = "get_classifier"

\* One pass of the loop up to the skip.
TrainCreate ==
    /\ pc = "loop"
    /\ loop_i <= Len(unique_hl_labels)
    /\ hl_label' = unique_hl_labels[loop_i]
    /\ LET nd == CreateTrainDataset(dataset, classes, hl_label')
       IN  /\ new_dataset' = nd
           /\ visited' = visited \cup {hl_label'}
           /\ AfterCreate(nd)
    /\ UNCHANGED <<loadVars, low_level_models, classifier_factory, classifier,
                   ret, traversal, epoch>>
    /\ UNCHANGED splitVars
    /\ UNCHANGED trainVars

\* What train() does with the outcome of classifier_factory.get_classifier:
\* nothing catches an exception, so it ends the call.
AfterGetClassifier(result) ==
    IF result.kind = "raise"
    THEN /\ pc' = "raised"
         /\ ret' = result
         /\ classifier' = classifier
    ELSE /\ pc' = "train_classifier"
         /\ ret' = ret
         /\ classifier' = result

TrainGetClassifier ==
    /\ pc = "get_classifier"
    /\ AfterGetClassifier(GetClassifierResult(classifier_factory, new_dataset,
                                              hl_label))
    /\ UNCHANGED <<loadVars, low_level_models, classifier_factory, loop_i,
                   hl_label, new_dataset, visited, traversal, epoch>>
    /\ UNCHANGED splitVars
    /\ UNCHANGED trainVars

\* Mutant: the mapping is started anew with every model stored.
Store_Fresh(models, key, c) == [l \in {key} |-> c]

\* self.low_level_models[hl_label] = classifier
Store(models, key, c) ==
    [l \in DOMAIN models \cup {key} |-> IF l = key THEN c ELSE models[l]]

\* classifier.train(save_layers=False) returns and the model is stored.
TrainClassifier ==
    /\ pc = "train_classifier"
    /\ low_level_models' =
            Store(low_level_models, hl_label, classifier)
    /\ loop_i' = loop_i + 1
    /\ pc' = "loop"
    /\ UNCHANGED <<loadVars, new_dataset, classifier_factory, hl_label,
                   classifier, visited, ret, traversal, epoch>>
    /\ UNCHANGED splitVars
    /\ UNCHANGED trainVars

\* classifier.train raises (its results cannot be written): train() ends.
TrainClassifierRaises ==
    /\ pc = "train_classifier"
    /\ pc' = "raised"
    /\ ret' = [kind |-> "raise", error |-> "IOError"]
    /\ UNCHANGED <<loadVars, low_level_models, new_dataset, loopVars,
                   traversal, epoch>>
    /\ UNCHANGED splitVars
    /\ UNCHANGED trainVars

Next ==
    \/ Load
    \/ TrainCall
    \/ TrainCreate
    \/ TrainGetClassifier
    \/ TrainClassifier
    \/ TrainClassifierRaises
    \/ TrainReturn

Spec == Init /\ [][Next]_vars

-----------------------------------------------------------------------------
(* Properties of create_train_dataset and train *)

\* The label string a coarse code stands for, read back from the class table.
CoarseLabelOf(row) == classes[1][row[1] + 1]

\* The number of rows of a split of the loaded dataset whose coarse label
\* is the string label.
FilteredCount(dataset_name, label) ==
    Cardinality({i \in DOMAIN dataset.datasets[dataset_name].labels :
                    CoarseLabelOf(dataset.datasets[dataset_name].labels[i]) = label})

Supported(label) == \A n \in SplitNames : FilteredCount(n, label) >= 2

C2_ModelsAreSupportedLabels ==
    pc = "done" =>
        /\ DOMAIN low_level_models =
                {l \in Range(unique_hl_labels) : Supported(l)}
        /\ dataset = Loaded(ScenarioA).dataset => DOMAIN low_level_models = {0}

\* The reference scenario has run to completion with its one model.
C2_Witness ==
    /\ pc = "done"
    /\ dataset = Loaded(ScenarioA).dataset
    /\ DOMAIN low_level_models = {0}
    /\ visited = {0, 1}

\* C3 (as claimed): a failure of get_classifier for one coarse label does not
\* keep train() from visiting every remaining coarse label.
C3_FactoryFailureIsolated ==
    (pc = "raised" /\ ret.error \in {"NotImplementedError", "AssertionError"})
        => visited = Range(unique_hl_labels)

-----------------------------------------------------------------------------
(* A loaded Dataset and the calls made on it *)

\* Coarse labels of a block of n examples: '0', '0', '1', '1', '0', ...
Pattern(n) == [i \in 1..n |-> ((i - 1) \div 2) % 2]

DataInputs ==
    {Arrays(Pattern(n), Pattern(n), Pattern(n)) : n \in 0..MaxSplit}

InitData ==
    /\ pc = "loaded"
    /\ \E a \in DataInputs :
        /\ dataset = Loaded(a).dataset
        /\ classes = Loaded(a).classes
        /\ unique_hl_labels = Loaded(a).unique_hl_labels
        /\ origin = OriginOf(a)
    /\ low_level_models = <<>>
    /\ classifier_factory = None
    /\ loop_i = 0
    /\ hl_label = None
    /\ new_dataset = None
    /\ classifier = None
    /\ visited = {}
    /\ ret = None
    /\ traversal = None
    /\ epoch = 0
    /\ yago_labels = <<>>
    /\ sizes = <<>>
    /\ validation_accuracy_record = <<>>
    /\ evaluated = <<>>
    /\ train_loss_record = <<>>
    /\ test_results = <<>>

\* The effect of dataset.next_batch(batch_size, cl_iteration) on the Dataset
\* and what the caller gets.
NextBatchWith(batch_size, cl_iteration) ==
    \E perm \in Shuffles(dataset, batch_size) :
        /\ Overruns(dataset, batch_size)
                => dataset.epochs_completed < MaxEpochs
        /\ dataset' = Advance(dataset, batch_size, perm)
        /\ ret' = NextBatchResult(dataset, batch_size, cl_iteration, perm)

\* dataset.next_batch(batch_size, cl_iteration), any arguments.
NextBatch ==
    /\ pc = "loaded"
    /\ \E batch_size \in 1..MaxBatch, cl_iteration \in {0, 1} :
            NextBatchWith(batch_size, cl_iteration)
    /\ UNCHANGED <<pc, classes, unique_hl_labels, origin, low_level_models,
                   new_dataset, loopVars, traversal, epoch>>
    /\ UNCHANGED splitVars
    /\ UNCHANGED trainVars

\* dataset.traverse_dataset(dataset_name, batch_size), consumed to its end.
Traverse ==
    /\ pc = "loaded"
    /\ \E dataset_name \in SplitNames, batch_size \in 1..MaxBatch :
        ret' = [kind |-> "traverse_dataset",
                dataset_name |-> dataset_name,
                batch_size |-> batch_size,
                value |-> traverse_dataset(dataset, dataset_name, batch_size)]
    /\ UNCHANGED <<pc, loadVars, low_level_models, new_dataset, loopVars,
                   traversal, epoch>>
    /\ UNCHANGED splitVars
    /\ UNCHANGED trainVars

\* create_train_dataset(target_label) called on its own, as the tests do.
CallCreateTrainDataset ==
    /\ pc = "loaded"
    /\ \E target_label \in Range(classes[1]) :
        ret' = [kind |-> "create_train_dataset",
                target_label |-> target_label,
                value |-> CreateTrainDataset(dataset, classes, target_label)]
    /\ UNCHANGED <<pc, loadVars, low_level_models, new_dataset, loopVars,
                   traversal, epoch>>
    /\ UNCHANGED splitVars
    /\ UNCHANGED trainVars

NextData ==
    \/ NextBatch
    \/ Traverse
    \/ CallCreateTrainDataset

SpecData == InitData /\ [][NextData]_vars

-----------------------------------------------------------------------------
(* A MultilayerPerceptron driving its Dataset: the loop of train() draws     *)
(* batches of self.batch_size, _evaluate traverses a split in blocks of      *)
(* self.batch_size.                                                          *)

\* MultilayerPerceptron.__init__ on a loaded Dataset: check_batch_size passed.
InitMLP ==
    /\ pc = "training"
    /\ \E a \in DataInputs :
        /\ dataset = Loaded(a).dataset
        /\ classes = Loaded(a).classes
        /\ unique_hl_labels = Loaded(a).unique_hl_labels
        /\ origin = OriginOf(a)
    /\ \E batch_size \in 1..MaxBatch, cl_iteration \in {0, 1} :
        /\ check_batch_size(batch_size, dataset)
        /\ classifier = [kind |-> "MultilayerPerceptron",
                         batch_size |-> batch_size,
                         cl_iteration |-> cl_iteration]
    /\ low_level_models = <<>>
    /\ classifier_factory = None
    /\ loop_i = 0
    /\ hl_label = None
    /\ new_dataset = None
    /\ visited = {}
    /\ ret = None
    /\ traversal = None
    /\ epoch = 0
    /\ yago_labels = <<>>
    /\ sizes = <<>>
    /\ validation_accuracy_record = <<>>
    /\ evaluated = <<>>
    /\ train_loss_record = <<>>
    /\ test_results = <<>>

\* One pass of "for epoch in np.arange(self.training_epochs)": the next batch.
TrainIteration ==
    /\ pc = "training"
    /\ epoch < MaxTrainingEpochs
    /\ NextBatchWith(classifier.batch_size, classifier.cl_iteration)
    /\ epoch' = epoch + 1
    /\ traversal' = IF ret.kind = "traverse_dataset" THEN ret ELSE traversal
    /\ UNCHANGED <<pc, classes, unique_hl_labels, origin, low_level_models,
                   new_dataset, loopVars>>
    /\ UNCHANGED splitVars
    /\ UNCHANGED trainVars

\* _evaluate(sess, dataset_name): the blocks it feeds to the network.
Evaluate ==
    /\ pc = "training"
    /\ \E dataset_name \in SplitNames :
        ret' = [kind |-> "traverse_dataset",
                dataset_name |-> dataset_name,
                batch_size |-> classifier.batch_size,
                epoch |-> epoch,
                value |-> traverse_dataset(dataset, dataset_name,
                                           classifier.batch_size)]
    /\ traversal' = IF ret.kind = "traverse_dataset" THEN ret ELSE traversal
    /\ UNCHANGED <<pc, loadVars, low_level_models, new_dataset, loopVars,
                   epoch>>
    /\ UNCHANGED splitVars
    /\ UNCHANGED trainVars

NextMLP ==
    \/ TrainIteration
    \/ Evaluate

SpecMLP == InitMLP /\ [][NextMLP]_vars

-----------------------------------------------------------------------------
(* Properties of Dataset.next_batch and Dataset.traverse_dataset *)

\* ceil(a / b)
CeilDiv(a, b) == (a + b - 1) \div b

\* b is one of the orders of the rows of a.
IsPermutation(a, b) ==
    /\ Len(a) = Len(b)
    /\ \A r \in Range(a) \cup Range(b) :
        Cardinality({i \in DOMAIN a : a[i] = r})
            = Cardinality({i \in DOMAIN b : b[i] = r})

\* Every feature row carries the label row it was loaded with.
Aligned(data, labels) ==
    /\ Len(data) = Len(labels)
    /\ \A i \in DOMAIN data : labels[i] = origin[data[i]]

\* C4: a next_batch call with batch_size <= N never returns a batch spanning
\* an epoch boundary.  When cursor + batch_size exceeds N the epoch counter
\* goes up, the train split is reordered, the batch is rows 0..B-1 of the new
\* order and the cursor is B; otherwise the batch is the B rows of the current
\* order from the old cursor on and the order is left as it is.
C4_NextBatchStep ==
    (dataset' # dataset /\ ret'.kind = "next_batch") =>
        LET B == ret'.batch_size
            N == num_examples(dataset, "train")
            cursor == dataset.index_in_epoch
        IN  /\ B <= N
            /\ Len(ret'.data) = B
            /\ Len(ret'.labels) = B
            /\ IF cursor + B > N
               THEN /\ dataset'.epochs_completed = dataset.epochs_completed + 1
                    /\ IsPermutation(dataset.train_dataset,
                                     dataset'.train_dataset)
                    /\ ret'.data = [k \in 1..B |-> dataset'.train_dataset[k]]
                    /\ dataset'.index_in_epoch = B
               ELSE /\ dataset'.epochs_completed = dataset.epochs_completed
                    /\ dataset'.train_dataset = dataset.train_dataset
                    /\ ret'.data = [k \in 1..B |->
                                        dataset.train_dataset[cursor + k]]
                    /\ dataset'.index_in_epoch = cursor + B

C4_NextBatchNeverSpansEpochs == [][C4_NextBatchStep]_vars

\* The call just made dropped a tail, reshuffled and served the first two
\* rows of the new order of a three-row train split.
C4_Witness ==
    /\ ret.kind = "next_batch"
    /\ num_examples(dataset, "train") = 3
    /\ ret.batch_size = 2
    /\ dataset.epochs_completed = 1
    /\ dataset.index_in_epoch = 2
    /\ dataset.train_dataset # dataset.datasets["train"].data
    /\ ret.data = <<dataset.train_dataset[1], dataset.train_dataset[2]>>

\* C6: alignment of features and labels.  The live train arrays are a
\* reordering of the loaded train split in which every feature row still has
\* its own label row; every batch served decodes to the labels of its rows;
\* every split of a Dataset made by create_train_dataset is aligned.
C6_AlignmentPreserved ==
    /\ Aligned(dataset.train_dataset, dataset.train_labels)
    /\ IsPermutation(dataset.datasets["train"].data, dataset.train_dataset)
    /\ ret.kind = "next_batch" =>
            /\ Len(ret.data) = Len(ret.labels)
            /\ \A k \in DOMAIN ret.data :
                    ArgMax(ret.labels[k])
                        = origin[ret.data[k]][ret.cl_iteration + 1]
    /\ (ret.kind = "create_train_dataset" /\ ret.value # None) =>
            \A n \in SplitNames :
                /\ Aligned(ret.value.datasets[n].data,
                           ret.value.datasets[n].labels)
                /\ \A i \in DOMAIN ret.value.datasets[n].labels :
                        classes[1][ret.value.datasets[n].labels[i][1] + 1]
                            = ret.target_label

\* create_train_dataset kept a proper part of a train split that next_batch
\* had reshuffled before.
C6_Witness ==
    /\ ret.kind = "create_train_dataset"
    /\ ret.value # None
    /\ dataset.epochs_completed = 1
    /\ dataset.train_dataset # dataset.datasets["train"].data
    /\ num_examples(ret.value, "train") < num_examples(dataset, "train")

\* C7: a traversal of a split whose feature matrix has M rows yields
\* ceil(M / B) pairs; pair k has offset (k-1)*B and the rows
\* offset..min(offset+B, M)-1 of the stored split; M = 0 yields nothing.
C7_TraverseCoversSplit ==
    ret.kind = "traverse_dataset" =>
        LET data == dataset.datasets[ret.dataset_name].data
            M == Len(data)
            B == ret.batch_size
            out == ret.value
        IN  /\ Len(out) = CeilDiv(M, B)
            /\ M = 0 => out = <<>>
            /\ \A k \in DOMAIN out :
                LET s == (k - 1) * B
                IN  /\ out[k][1] = s
                    /\ out[k][2] = [j \in 1..(Min2(s + B, M) - s) |->
                                        data[s + j]]

\* Three rows traversed in blocks of two: a full block and a partial one.
C7_Witness ==
    /\ ret.kind = "traverse_dataset"
    /\ ret.batch_size = 2
    /\ Len(dataset.datasets[ret.dataset_name].data) = 3
    /\ Len(ret.value) = 2
    /\ Len(ret.value[2][2]) = 1
    /\ dataset.epochs_completed = 1

\* C9: for each level with C = output_size classes and each class index c in
\* 0..C-1 the one-hot encoding of c has length C, a single 1 at index c and 0
\* elsewhere, and argmax decodes it to c; so do the label rows of a batch.
C9_OneHotRoundTrip ==
    /\ \A cl_iteration \in {0, 1} :
        LET C == output_size(dataset, cl_iteration)
        IN  \A c \in 0..(C - 1) :
                LET v == one_hot_encoding(dataset, <<c>>, cl_iteration)[1]
                IN  /\ DOMAIN v = 0..(C - 1)
                    /\ v[c] = 1
                    /\ \A j \in 0..(C - 1) : j # c => v[j] = 0
                    /\ ArgMax(v) = c
    /\ ret.kind = "next_batch" =>
        \A k \in DOMAIN ret.labels :
            /\ DOMAIN ret.labels[k]
                    = 0..(output_size(dataset, ret.cl_iteration) - 1)
            /\ Cardinality({j \in DOMAIN ret.labels[k] : ret.labels[k][j] = 1})
                    = 1
            /\ ArgMax(ret.labels[k])
                    = origin[ret.data[k]][ret.cl_iteration + 1]

\* A batch of two fine labels over four classes, one of them class 2 or 3.
C9_Witness ==
    /\ ret.kind = "next_batch"
    /\ ret.cl_iteration = 1
    /\ output_size(dataset, 1) = 4
    /\ Len(ret.labels) = 2
    /\ \E k \in 1..2 : ArgMax(ret.labels[k]) >= 2
    /\ ret.labels[1] # ret.labels[2]

-----------------------------------------------------------------------------
(* Properties of the batches a MultilayerPerceptron draws *)

\* C5 (as claimed): after ceil(N / B) calls of next_batch on a fresh Dataset
\* the cursor has wrapped at least once.
C5_WrappedAfterCeilCalls ==
    (pc = "training"
        /\ epoch = CeilDiv(num_examples(dataset, "train"),
                           classifier.batch_size))
            => dataset.epochs_completed >= 1

\* C5 (amended): with q = floor(N / B), the first q calls do not wrap and call
\* k serves rows (k-1)*B..k*B-1 of the loaded order, each row once; call q+1
\* wraps: the epoch counter is 1, the train split is reordered and the batch
\* is the first B rows of the new order.
C5_WrapsAfterFloorPlusOneCalls ==
    pc = "training" =>
        LET N == num_examples(dataset, "train")
            B == classifier.batch_size
            q == N \div B
            served == ret.kind = "next_batch"
        IN  /\ B >= 1 /\ B <= N
            /\ epoch <= q =>
                /\ dataset.epochs_completed = 0
                /\ dataset.index_in_epoch = epoch * B
                /\ dataset.train_dataset = dataset.datasets["train"].data
                /\ served => ret.data = [k \in 1..B |->
                        dataset.datasets["train"].data[(epoch - 1) * B + k]]
            /\ epoch = q + 1 =>
                /\ dataset.epochs_completed = 1
                /\ dataset.index_in_epoch = B
                /\ IsPermutation(dataset.datasets["train"].data,
                                 dataset.train_dataset)
                /\ served => ret.data = [k \in 1..B |->
                                            dataset.train_dataset[k]]

\* B divides N: the wrap came with call N / B + 1, not with call N / B.
C5_Witness ==
    /\ pc = "training"
    /\ num_examples(dataset, "train") = 2
    /\ classifier.batch_size = 1
    /\ epoch = 3
    /\ ret.kind = "next_batch"
    /\ dataset.epochs_completed = 1
    /\ dataset.train_dataset # dataset.datasets["train"].data

\* C8: two traversals of the same split with the same batch size yield the
\* same offsets and the same blocks, whatever next_batch did in between.
C8_TraverseIdempotent ==
    (/\ ret.kind = "traverse_dataset"
     /\ traversal.kind = "traverse_dataset"
     /\ ret.dataset_name = traversal.dataset_name
     /\ ret.batch_size = traversal.batch_size)
        => ret.value = traversal.value

\* The train split traversed before and after the call that reshuffled it.
C8_Witness ==
    /\ ret.kind = "traverse_dataset"
    /\ traversal.kind = "traverse_dataset"
    /\ ret.dataset_name = "train"
    /\ traversal.dataset_name = "train"
    /\ num_examples(dataset, "train") = 2
    /\ classifier.batch_size = 2
    /\ traversal.epoch = 1
    /\ ret.epoch = 2
    /\ dataset.epochs_completed = 1
    /\ dataset.train_dataset # dataset.datasets["train"].data
    /\ Len(ret.value) = 1

-----------------------------------------------------------------------------
(* processing.split_dataset and the StratifiedSplitter it calls.  Labels are *)
(* naturals, OLabel standing for 'O'; a fraction is a number of quarters.    *)

MaxLabels == 5          \* rows of the label arrays that are split

OLabel == 0
MinCount == 3
SplitterMinimum == 3

LabelValues == {OLabel, 1, 2}

\* (train_size, test_size, validation_size) in quarters, summing to <= 1.
SizeChoices == {<<2, 1, 1>>, <<1, 1, 1>>, <<3, 1, 0>>, <<1, 2, 1>>, <<4, 0, 0>>, <<2, 1, 0>>}

\* Counter(yago_labels)[l]
Count(column, l) == Cardinality({i \in DOMAIN column : column[i] = l})

\* Mutant: a class needs more than min_count rows.
FilteredClasses_Strict(column, min_count) ==
    {l \in Range(column) : Count(column, l) > min_count}

\* split_dataset: the classes with at least min_count rows.
FilteredClasses(column, min_count) ==
    {l \in Range(column) : Count(column, l) >= min_count}

\* split_dataset: the rows of a frequent class and every 'O' row, increasing.
RECURSIVE FilteredIndicesFrom(_, _, _)
FilteredIndicesFrom(column, min_count, i) ==
    IF i > Len(column) THEN <<>>
    ELSE (IF \/ (column[i] # OLabel
                    /\ column[i] \in FilteredClasses(column, min_count))
             \/ column[i] = OLabel
          THEN <<i - 1>> ELSE <<>>)
            \o FilteredIndicesFrom(column, min_count, i + 1)

FilteredIndices(column, min_count) == FilteredIndicesFrom(column, min_count, 1)

\* The orders a shuffle can leave the elements of S in.
RECURSIVE Orders(_)
Orders(S) ==
    IF S = {} THEN {<<>>}
    ELSE UNION {{<<x>> \o o : o \in Orders(S \ {x})} : x \in S}

\* round(n * quarters / 4); a tie goes up or to the even neighbour, depending
\* on the interpreter's round.
Rounds(n, quarters) ==
    LET x == n * quarters
        q == x \div 4
        r == x % 4
    IN  IF r < 2 THEN {q} ELSE IF r > 2 THEN {q + 1} ELSE {q, q + 1}

\* The splits whose requested share is the largest.
LargestShare(fractions) ==
    {k \in 1..3 : \A j \in 1..3 : fractions[j] <= fractions[k]}

\* Mutant: the test slice starts one row early, inside the train slice.
Allocate_Overlap(order, a, b, v, target) ==
    [k \in 1..3 |->
        CASE k = 1 -> Slice(order, 0, a)
          [] k = 2 -> Slice(order, IF a > 0 THEN a - 1 ELSE 0, a + b)
          [] k = 3 -> Slice(order, a + b, a + b + v)]

\* Mutant: the train slice ends one row late.
Allocate_TrainOneMore(order, a, b, v, target) ==
    [k \in 1..3 |->
        CASE k = 1 -> Slice(order, 0, a + 1)
          [] k = 2 -> Slice(order, a + 1, a + 1 + b)
          [] k = 3 -> Slice(order, a + 1 + b, a + 1 + b + v)]

\* One class, its rows in shuffled order: a rows to train, the next b to test,
\* of the rest up to v to validation; when a split would be empty the
\* leftover goes to split target.  The result is <<train, test, validation>>.
Allocate(order, a, b, v, target) ==
    LET part == <<Slice(order, 0, a),
                  Slice(order, a, a + b),
                  Slice(order, a + b, a + b + v)>>
        leftover == Slice(order, a + b + v, Len(order))
        short == \E k \in 1..3 : part[k] = <<>>
    IN  [k \in 1..3 |->
            IF short /\ k = target THEN part[k] \o leftover ELSE part[k]]

\* The allocations of one class of the candidate rows.
ClassSplits(candidates, l, fractions) ==
    LET rows == {i \in 0..(Len(candidates) - 1) : candidates[i + 1] = l}
        n == Cardinality(rows)
    IN  {Allocate(order, a, b, v, target) :
            order \in Orders(rows),
            a \in Rounds(n, fractions[1]),
            b \in Rounds(n, fractions[2]),
            v \in Rounds(n, fractions[3]),
            target \in LargestShare(fractions)}

\* The classes the splitter keeps, in increasing order.
KeptClasses(candidates) ==
    Unique(SelectSeq(candidates,
        LAMBDA l : Count(candidates, l) >= SplitterMinimum))

\* get_splitted_dataset_indices: the index triples it can return, the
\* allocations of the kept classes put one after the other.  The indices are
\* positions into the candidate rows.
RECURSIVE SplitsFrom(_, _, _)
SplitsFrom(candidates, kept, fractions) ==
    IF kept = <<>> THEN {<<<<>>, <<>>, <<>>>>}
    ELSE {[k \in 1..3 |-> c[k] \o r[k]] :
            c \in ClassSplits(candidates, Head(kept), fractions),
            r \in SplitsFrom(candidates, Tail(kept), fractions)}

\* Mutant: the indices returned are row numbers of the whole label array.
get_splitted_dataset_indices_Absolute(column, filtered_indices, fractions) ==
    LET candidates == Take(column, filtered_indices)
    IN  {[k \in 1..3 |-> Take(filtered_indices, split[k])] :
            split \in SplitsFrom(candidates, KeptClasses(candidates),
                                 fractions)}

get_splitted_dataset_indices(column, filtered_indices, fractions) ==
    LET candidates == Take(column, filtered_indices)
    IN  SplitsFrom(candidates, KeptClasses(candidates), fractions)

InitSplit ==
    /\ pc = "split_dataset"
    /\ yago_labels \in SeqsUpTo(LabelValues, MaxLabels)
    /\ sizes \in SizeChoices
    /\ dataset = None
    /\ classes = None
    /\ unique_hl_labels = None
    /\ origin = <<>>
    /\ low_level_models = <<>>
    /\ classifier_factory = None
    /\ loop_i = 0
    /\ hl_label = None
    /\ new_dataset = None
    /\ classifier = None
    /\ visited = {}
    /\ ret = None
    /\ traversal = None
    /\ epoch = 0
    /\ validation_accuracy_record = <<>>
    /\ evaluated = <<>>
    /\ train_loss_record = <<>>
    /\ test_results = <<>>

\* split_dataset up to numpy.savez_compressed: ret is what is saved.
SplitDataset ==
    /\ pc = "split_dataset"
    /\ LET filtered_indices == FilteredIndices(yago_labels, MinCount)
       IN  \E split \in get_splitted_dataset_indices(yago_labels,
                                            filtered_indices, sizes) :
                ret' = [kind |-> "split_dataset",
                        train_indices |-> split[1],
                        test_indices |-> split[2],
                        validation_indices |-> split[3],
                        filtered_indices |-> filtered_indices]
    /\ pc' = "saved"
    /\ UNCHANGED <<loadVars, low_level_models, new_dataset, loopVars,
                   traversal, epoch, splitVars>>
    /\ UNCHANGED trainVars

\* labels_filterer: the positions of the labels that occur at least
\* MinCount times, increasing.
RECURSIVE LabelsFiltererFrom(_, _)
LabelsFiltererFrom(column, i) ==
    IF i > Len(column) THEN <<>>
    ELSE (IF Count(column, column[i]) >= MinCount THEN <<i - 1>> ELSE <<>>)
            \o LabelsFiltererFrom(column, i + 1)

labels_filterer(column) == LabelsFiltererFrom(column, 1)

\* read_documents: the indices of the documents that have a named entity,
\* here every second document read.
Documents(n) == [k \in 1..n |-> 2 * k - 1]

\* "index in filtered_indices" over enumerate(self.documents)
RECURSIVE KeepDocuments(_, _, _)
KeepDocuments(documents, indices, i) ==
    IF i > Len(documents) THEN <<>>
    ELSE (IF (i - 1) \in Range(indices) THEN <<documents[i]>> ELSE <<>>)
            \o KeepDocuments(documents, indices, i + 1)

\* StanfordPreprocesser.filter_labels on self.labels = yago_labels: ret is
\* self.labels and self.documents after it.
FilterLabels ==
    /\ pc = "split_dataset"
    /\ LET filtered_indices == labels_filterer(yago_labels)
       IN  ret' = [kind |-> "filter_labels",
                   labels |-> Take(yago_labels, filtered_indices),
                   documents |-> KeepDocuments(Documents(Len(yago_labels)),
                                               filtered_indices, 1)]
    /\ pc' = "filtered"
    /\ UNCHANGED <<loadVars, low_level_models, new_dataset, loopVars,
                   traversal, epoch, splitVars>>
    /\ UNCHANGED trainVars

NextSplit ==
    \/ SplitDataset
    \/ FilterLabels

SpecSplit == InitSplit /\ [][NextSplit]_vars

\* The rows the three saved arrays select, as sets of positions.
SplitSets == <<Range(ret.train_indices), Range(ret.test_indices), Range(ret.validation_indices)>>

NoDuplicates(a) == Cardinality(Range(a)) = Len(a)

\* C10 (as claimed): the three index arrays are pairwise disjoint and their
\* union is exactly the filtered index set.
C10_SplitsPartitionFiltered ==
    pc = "saved" =>
        /\ \A j, k \in 1..3 : j # k => SplitSets[j] \cap SplitSets[k] = {}
        /\ SplitSets[1] \cup SplitSets[2] \cup SplitSets[3]
                = 0..(Len(ret.filtered_indices) - 1)

\* C10 (amended): the three index arrays are pairwise disjoint, none repeats
\* an index, and their union is within the filtered index set: each index is
\* a position of filtered_indices, whose row is an 'O' row or a row of a
\* class with at least min_count rows.
C10_SplitsDisjointWithinFiltered ==
    pc = "saved" =>
        /\ \A j, k \in 1..3 : j # k => SplitSets[j] \cap SplitSets[k] = {}
        /\ NoDuplicates(ret.train_indices)
        /\ NoDuplicates(ret.test_indices)
        /\ NoDuplicates(ret.validation_indices)
        /\ \A i \in SplitSets[1] \cup SplitSets[2] \cup SplitSets[3] :
            /\ i \in 0..(Len(ret.filtered_indices) - 1)
            /\ LET l == yago_labels[ret.filtered_indices[i + 1] + 1]
               IN  l = OLabel \/ Count(yago_labels, l) >= MinCount

\* Four rows of one class and a fifth, rare row: quarters 1/1/1 give one row
\* to each split, one kept row is in no split and the rare row is dropped.
C10_Witness ==
    /\ pc = "saved"
    /\ Len(yago_labels) = 5
    /\ Len(ret.filtered_indices) = 4
    /\ sizes = <<1, 1, 1>>
    /\ \A k \in 1..3 : Cardinality(SplitSets[k]) = 1
    /\ 3 \in SplitSets[1]

\* The labels of the candidate rows the splitter was given.
Candidates == Take(yago_labels, ret.filtered_indices)

\* The rows of class l that split k (1 train, 2 test, 3 validation) holds.
Placed(k, l) == Cardinality({i \in SplitSets[k] : Candidates[i + 1] = l})

\* |placed - n * quarters / 4| <= 1, in quarters of a row.
WithinOne(placed, n, quarters) ==
    /\ 4 * placed - n * quarters <= 4
    /\ n * quarters - 4 * placed <= 4

\* C11 (as claimed): for every class the splitter keeps, with n rows, the
\* rows placed in each split differ from n times the split's fraction by at
\* most 1.
C11_SharesWithinOne ==
    pc = "saved" =>
        \A l \in Range(KeptClasses(Candidates)), k \in 1..3 :
            WithinOne(Placed(k, l), Count(Candidates, l), sizes[k])

\* C11 (amended): the same, for fractions that sum to 1.
C11_SharesWithinOneOfFullSplit ==
    (pc = "saved" /\ sizes[1] + sizes[2] + sizes[3] = 4) =>
        \A l \in Range(KeptClasses(Candidates)), k \in 1..3 :
            WithinOne(Placed(k, l), Count(Candidates, l), sizes[k])

\* Five rows of one class at 3/4, 1/4, 0: four rows in train, one in test.
C11_Witness ==
    /\ pc = "saved"
    /\ yago_labels = <<1, 1, 1, 1, 1>>
    /\ sizes = <<3, 1, 0>>
    /\ Placed(1, 1) = 4
    /\ Placed(2, 1) = 1
    /\ Placed(3, 1) = 0

\* The 1-based rows of yago_labels whose label occurs at least 3 times.
FrequentRows == {i \in DOMAIN yago_labels : Count(yago_labels, yago_labels[i]) >= 3}

\* filter_labels kept exactly the labels and documents of the frequent rows,
\* in their order.
FilterLabelsKeepsFrequent ==
    pc = "filtered" =>
        /\ Len(ret.labels) = Cardinality(FrequentRows)
        /\ Len(ret.documents) = Cardinality(FrequentRows)
        /\ \A i \in DOMAIN yago_labels :
            LET k == Cardinality({j \in FrequentRows : j <= i})
            IN  i \in FrequentRows =>
                    /\ ret.labels[k] = yago_labels[i]
                    /\ ret.documents[k] = Documents(Len(yago_labels))[i]

\* C12 (as claimed): on both paths a row is retained if and only if its
\* label occurs at least 3 times in total, whatever the label.
C12_RetainedIffFrequent ==
    /\ FilterLabelsKeepsFrequent
    /\ pc = "saved" =>
        \A i \in DOMAIN yago_labels :
            (i - 1) \in Range(ret.filtered_indices) <=> i \in FrequentRows

\* C12 (amended): filter_labels retains a row if and only if its label occurs
\* at least 3 times; split_dataset retains every 'O' row, and a row with
\* another label if and only if that label occurs at least 3 times.
C12_RetainedIffFrequentOrO ==
    /\ FilterLabelsKeepsFrequent
    /\ pc = "saved" =>
        /\ \A i \in DOMAIN yago_labels :
            (i - 1) \in Range(ret.filtered_indices)
                <=> (yago_labels[i] = OLabel \/ i \in FrequentRows)
        /\ \A j, k \in DOMAIN ret.filtered_indices :
            j < k => ret.filtered_indices[j] < ret.filtered_indices[k]

\* split_dataset on a label with 3 rows and a label with 2: the first stays.
C12_Witness ==
    /\ pc = "saved"
    /\ yago_labels = <<1, 2, 1, 2, 1>>
    /\ ret.filtered_indices = <<0, 2, 4>>

-----------------------------------------------------------------------------
(* MultilayerPerceptron.train: the loop, its validation checks and the final *)
(* evaluation.  An accuracy is a number of thousandths; what the network     *)
(* predicts is not modelled, so a check can record any of AccuracyLevels.    *)

MaxBudget == 41         \* the largest training_epochs that is run

LossReport == 1

AccuracyLevels == {800, 850, 945, 950, 990, 996}

\* A Dataset of three levels: two rows in the train and the validation
\* split, one in the test split, which lacks the second class of the last
\* level.
TrainInput ==
    DatasetFromArrays(<<<<0>>, <<0, 1>>, <<0, 1>>>>,
                      <<1, 2>>, <<3>>, <<5, 6>>,
                      <<<<0, 0, 0>>, <<0, 1, 1>>>>,
                      <<<<0, 0, 0>>>>,
                      <<<<0, 0, 0>>, <<0, 1, 1>>>>)

SeqMax(s) == CHOOSE x \in Range(s) : \A y \in Range(s) : y <= x

SeqMin(s) == CHOOSE x \in Range(s) : \A y \in Range(s) : x <= y

\* s[-n:]
LastN(s, n) == SubSeq(s, Len(s) - n + 1, Len(s))

\* round(accuracy, 2), in hundredths.
Round2(accuracy) ==
    LET q == accuracy \div 10
        r == accuracy % 10
    IN  IF r < 5 THEN q
        ELSE IF r > 5 THEN q + 1
        ELSE IF q % 2 = 0 THEN q ELSE q + 1

\* Mutant: the drop below the best accuracy is not looked at.
StopMessage_NoDivergence(record, cl_iteration) ==
    LET accuracy == record[Len(record)]
    IN  IF Round2(accuracy) = 100 \/ (cl_iteration < 2 /\ accuracy >= 990)
        THEN "Validation accuracy maxed"
        ELSE IF Len(record) >= 5 /\ accuracy >= 950
        THEN IF SeqMax(LastN(record, 5)) - SeqMin(LastN(record, 5)) < 10
             THEN "Validation accuracy unchanged for a large period"
             ELSE "continue"
        ELSE IF Len(record) >= 10 /\ accuracy >= 850
        THEN IF SeqMax(LastN(record, 10)) - SeqMin(LastN(record, 10)) < 10
             THEN "Validation accuracy unchanged for a large period"
             ELSE "continue"
        ELSE "continue"

\* The decision taken after an accuracy was appended to the record: the
\* message printed before "break", or "continue".
StopMessage(record, cl_iteration) ==
    LET accuracy == record[Len(record)]
    IN  IF Round2(accuracy) = 100 \/ (cl_iteration < 2 /\ accuracy >= 990)
        THEN "Validation accuracy maxed"
        ELSE IF Len(record) < 2 THEN "continue"
        ELSE IF SeqMax(record) - accuracy > 10
        THEN "Validation accuracy converging"
        ELSE IF Len(record) >= 5 /\ accuracy >= 950
        THEN IF SeqMax(LastN(record, 5)) - SeqMin(LastN(record, 5)) < 10
             THEN "Validation accuracy unchanged for a large period"
             ELSE "continue"
        ELSE IF Len(record) >= 10 /\ accuracy >= 850
        THEN IF SeqMax(LastN(record, 10)) - SeqMin(LastN(record, 10)) < 10
             THEN "Validation accuracy unchanged for a large period"
             ELSE "continue"
        ELSE "continue"

\* Mutant: the checks inside the loop are run on the test split.
CheckedSplit_Test == "test"

\* The split the checks inside the loop are run on.
CheckedSplit == "validation"

\* Mutant: the check is made every loss_report * 2 passes.
ChecksValidation_Twice(e, loss_report) == e > 0 /\ e % (loss_report * 2) = 0

\* "epoch > 0 and epoch % (self.loss_report * 4) == 0"
ChecksValidation(e, loss_report) == e > 0 /\ e % (loss_report * 4) = 0

\* Mutant: the loss is recorded at the validation checks only.
RecordsLoss_AtChecks(e, loss_report) == e > 0 /\ e % (loss_report * 4) = 0

\* "epoch > 0 and epoch % self.loss_report == 0"
RecordsLoss(e, loss_report) == e > 0 /\ e % loss_report = 0

\* The defaults training_epochs=10000 and loss_report=250 of the constructor,
\* scaled by 250 to DefaultEpochs and LossReport; MLPFactory runs them with
\* cl_iteration=1.
DefaultEpochs == 40 * LossReport

DefaultRun == <<DefaultEpochs, LossReport, 1>>

\* The classifiers that are run, as
\* <<training_epochs, loss_report, cl_iteration>>.
TrainRuns ==
    {<<0, LossReport, 0>>, <<1, LossReport, 0>>, <<5, LossReport, 0>>,
     <<0, LossReport, 2>>, <<1, LossReport, 2>>, <<5, LossReport, 2>>,
     <<17, 2 * LossReport, 0>>, DefaultRun, <<MaxBudget, LossReport, 2>>}

\* Dataset.dataset_labels: labels[:, cl_iteration] of a split.
dataset_labels(ds, dataset_name, cl_iteration) ==
    Column(ds.datasets[dataset_name].labels, cl_iteration)

\* The predictions _evaluate may collect for the rows of a split.
Predictions(ds, dataset_name, cl_iteration) ==
    [1..num_examples(ds, dataset_name) -> 0..(output_size(ds, cl_iteration) - 1)]

\* A metric of scikit-learn as the fraction <<numerator, denominator>>; an
\* undefined metric (denominator 0) is reported as 0.
Ratio(a, b) == IF b = 0 THEN <<0, 1>> ELSE <<a, b>>

\* The rows whose true label is (is not) c and whose prediction is (is not) c.
CountWhere(y_true, y_pred, c, in_true, in_pred) ==
    Cardinality({k \in DOMAIN y_true :
        ((y_true[k] = c) <=> in_true) /\ ((y_pred[k] = c) <=> in_pred)})

\* precision_score, recall_score and f1_score with labels=arange(output_size)
\* and average=None, for the class of code c.
ClassRow(cls, c, y_true, y_pred) ==
    LET tp == CountWhere(y_true, y_pred, c, TRUE, TRUE)
        fp == CountWhere(y_true, y_pred, c, FALSE, TRUE)
        fn == CountWhere(y_true, y_pred, c, TRUE, FALSE)
    IN  [class |-> cls,
         precision |-> Ratio(tp, tp + fp),
         recall |-> Ratio(tp, tp + fn),
         fscore |-> Ratio(2 * tp, 2 * tp + fp + fn)]

AccuracyRow(y_true, y_pred) ==
    [accuracy |-> Ratio(Cardinality({k \in DOMAIN y_true : y_true[k] = y_pred[k]}),
                        Len(y_true))]

\* Mutant: only the classes that occur in the test split get a row.
TestResultsRows_Supported(ds, cl_iteration, y_pred) ==
    LET y_true == dataset_labels(ds, "test", cl_iteration)
        cls == ds.classes[cl_iteration + 1]
        present == Unique(y_true)
    IN  <<AccuracyRow(y_true, y_pred)>>
            \o [k \in DOMAIN present |->
                    ClassRow(cls[present[k] + 1], present[k], y_true, y_pred)]

\* test_results after the evaluation of the test split: the accuracy row,
\* then a row for every entry of dataset.classes[cl_iteration].
TestResultsRows(ds, cl_iteration, y_pred) ==
    LET y_true == dataset_labels(ds, "test", cl_iteration)
        cls == ds.classes[cl_iteration + 1]
    IN  <<AccuracyRow(y_true, y_pred)>>
            \o [k \in DOMAIN cls |-> ClassRow(cls[k], k - 1, y_true, y_pred)]

\* MultilayerPerceptron.__init__ and the call of train().
InitTrain ==
    /\ pc = "train"
    /\ dataset = TrainInput
    /\ classes = TrainInput.classes
    /\ unique_hl_labels = None
    /\ origin = <<>>
    /\ \E batch_size \in 1..MaxBatch, run \in TrainRuns :
        /\ check_batch_size(batch_size, dataset)
        /\ classifier = [kind |-> "MultilayerPerceptron",
                         batch_size |-> batch_size,
                         cl_iteration |-> run[3],
                         training_epochs |-> run[1],
                         loss_report |-> run[2]]
    /\ low_level_models = <<>>
    /\ classifier_factory = None
    /\ loop_i = 0
    /\ hl_label = None
    /\ new_dataset = None
    /\ visited = {}
    /\ ret = None
    /\ traversal = None
    /\ epoch = 0
    /\ yago_labels = <<>>
    /\ sizes = <<>>
    /\ validation_accuracy_record = <<>>
    /\ evaluated = <<>>
    /\ train_loss_record = <<>>
    /\ test_results = <<>>

\* One pass of the loop of train(): the batch, and every loss_report * 4
\* passes the validation check, which may break out of the loop.
TrainStep ==
    /\ pc = "train"
    /\ epoch < classifier.training_epochs
    /\ \E perm \in Shuffles(dataset, classifier.batch_size) :
        dataset' = Advance(dataset, classifier.batch_size, perm)
    /\ epoch' = epoch + 1
    /\ train_loss_record' =
            IF RecordsLoss(epoch, classifier.loss_report)
            THEN Append(train_loss_record, epoch)
            ELSE train_loss_record
    /\ test_results' = test_results
    /\ IF ChecksValidation(epoch, classifier.loss_report)
       THEN \E accuracy \in AccuracyLevels :
            LET record == Append(validation_accuracy_record, accuracy)
                message == StopMessage(record, classifier.cl_iteration)
            IN  /\ validation_accuracy_record' = record
                /\ evaluated' = Append(evaluated, CheckedSplit)
                /\ ret' = [kind |-> "validation", message |-> message]
                /\ pc' = IF message = "continue" THEN "train" ELSE "finished"
       ELSE /\ ret' = [kind |-> "batch", message |-> "continue"]
            /\ UNCHANGED <<pc, validation_accuracy_record, evaluated>>
    /\ UNCHANGED <<classes, unique_hl_labels, origin, low_level_models,
                   new_dataset, loopVars, traversal, splitVars>>

\* After the loop, left by break or by the end of the budget: the evaluation
\* of the test split and the saving of the results.
TrainFinish ==
    /\ \/ pc = "finished"
       \/ pc = "train" /\ epoch = classifier.training_epochs
    /\ evaluated' = Append(evaluated, "test")
    /\ \E y_pred \in Predictions(dataset, "test", classifier.cl_iteration) :
        test_results' = test_results
            \o TestResultsRows(dataset, classifier.cl_iteration, y_pred)
    /\ ret' = [kind |-> "test",
               message |-> IF pc = "finished" THEN ret.message
                           ELSE "Finished training"]
    /\ pc' = "trained"
    /\ UNCHANGED <<loadVars, low_level_models, new_dataset, loopVars,
                   traversal, epoch, splitVars, validation_accuracy_record,
                   train_loss_record>>

NextTrain ==
    \/ TrainStep
    \/ TrainFinish

SpecTrain == InitTrain /\ [][NextTrain]_vars

\* train() is a sequential loop: it keeps running until it has returned.
SpecTrainFair == SpecTrain /\ WF_vars(NextTrain)

\* The span of the last n recorded accuracies.
Span(record, n) == SeqMax(LastN(record, n)) - SeqMin(LastN(record, n))

\* The stop conditions (b), (c), (d) on a record whose last entry is the
\* accuracy of the check just made.
AccuracyMaxed(record, cl_iteration) ==
    \/ Round2(record[Len(record)]) = 100
    \/ cl_iteration < 2 /\ record[Len(record)] >= 990

AccuracyDiverged(record) == SeqMax(record) - record[Len(record)] > 10

AccuracyPlateau(record) ==
    \/ record[Len(record)] >= 950 /\ Len(record) >= 5 /\ Span(record, 5) < 10
    \/ record[Len(record)] >= 850 /\ Len(record) >= 10 /\ Span(record, 10) < 10

\* C13: a pass of the training loop leaves the loop early if and only if it
\* made a validation check and the accuracy recorded by it is maxed (b), more
\* than 0.01 below the best recorded (c), or on a plateau (d); otherwise the
\* loop goes on.
C13_Step ==
    (pc = "train" /\ epoch' = epoch + 1) =>
        /\ pc' \in {"train", "finished"}
        /\ pc' = "finished" <=>
            /\ Len(validation_accuracy_record') > Len(validation_accuracy_record)
            /\ \/ AccuracyMaxed(validation_accuracy_record', classifier.cl_iteration)
               \/ AccuracyDiverged(validation_accuracy_record')
               \/ AccuracyPlateau(validation_accuracy_record')

C13_StopsEarlyIffRule == [][C13_Step]_vars

\* The tenth check in a row records 0.85: the plateau of ten checks.
C13_Witness ==
    /\ pc = "finished"
    /\ classifier.cl_iteration = 2
    /\ validation_accuracy_record = [k \in 1..10 |-> 850]
    /\ ret.message = "Validation accuracy unchanged for a large period"
    /\ epoch = 41

\* The number of evaluations of the test split made so far.
TestEvaluations == Cardinality({k \in DOMAIN evaluated : evaluated[k] = "test"})

\* C14, in every state: the loop never runs more than training_epochs passes,
\* the test split is not evaluated while the loop runs or has just been left,
\* and once train() is through it was evaluated once, as the last evaluation.
C14_State ==
    /\ epoch <= classifier.training_epochs
    /\ pc \in {"train", "finished"} => TestEvaluations = 0
    /\ pc = "trained" =>
        /\ TestEvaluations = 1
        /\ evaluated[Len(evaluated)] = "test"

\* C14: every run of train() gets through, after at most training_epochs
\* passes of the loop, and evaluates the test split exactly once, after the
\* loop.
C14_TerminatesThenTestsOnce == []C14_State /\ <>(pc = "trained")

\* The budget of 5 passes ran out right after the first validation check,
\* which did not stop the loop; then the test split was evaluated.
C14_Witness ==
    /\ pc = "trained"
    /\ classifier.training_epochs = 5
    /\ epoch = 5
    /\ evaluated = <<"validation", "test">>
    /\ ret.message = "Finished training"

-----------------------------------------------------------------------------
(* MultilayerPerceptron.__init__ on Datasets whose splits differ in size *)

\* Datasets with 0..MaxSplit rows in each split, the sizes independent.
ConstructInputs ==
    {Arrays(Pattern(n), Pattern(m), Pattern(k)) : n, m, k \in 0..MaxSplit}

InitConstruct ==
    /\ pc = "loaded"
    /\ \E a \in ConstructInputs :
        /\ dataset = Loaded(a).dataset
        /\ classes = Loaded(a).classes
        /\ unique_hl_labels = Loaded(a).unique_hl_labels
        /\ origin = OriginOf(a)
    /\ low_level_models = <<>>
    /\ classifier_factory = None
    /\ loop_i = 0
    /\ hl_label = None
    /\ new_dataset = None
    /\ classifier = None
    /\ visited = {}
    /\ ret = None
    /\ traversal = None
    /\ epoch = 0
    /\ yago_labels = <<>>
    /\ sizes = <<>>
    /\ validation_accuracy_record = <<>>
    /\ evaluated = <<>>
    /\ train_loss_record = <<>>
    /\ test_results = <<>>

\* MultilayerPerceptron(dataset, cl_iteration=..., batch_size=...): the first
\* statement is check_batch_size; when it fails nothing has been assigned.
Construct ==
    /\ pc = "loaded"
    /\ \E batch_size \in 1..MaxBatch, cl_iteration \in {0, 1} :
        IF check_batch_size(batch_size, dataset)
        THEN /\ classifier' = [kind |-> "MultilayerPerceptron",
                               batch_size |-> batch_size,
                               cl_iteration |-> cl_iteration]
             /\ ret' = [kind |-> "MultilayerPerceptron",
                        batch_size |-> batch_size]
             /\ pc' = "constructed"
        ELSE /\ classifier' = classifier
             /\ ret' = [kind |-> "raise", error |-> "AssertionError",
                        batch_size |-> batch_size]
             /\ pc' = "raised"
    /\ UNCHANGED <<loadVars, low_level_models, new_dataset, classifier_factory,
                   loop_i, hl_label, visited, traversal, epoch, splitVars,
                   trainVars>>

NextConstruct == Construct

SpecConstruct == InitConstruct /\ [][NextConstruct]_vars

\* The label rows of a split of the Dataset.
SplitSize(n) == Len(dataset.datasets[n].labels)

\* C15: the constructor fails, with nothing set up, if and only if batch_size
\* exceeds the train split, or a test split of more than 1 example, or a
\* validation split of more than 1 example.
C15_ConstructorChecksBatchSize ==
    pc \in {"constructed", "raised"} =>
        /\ pc = "raised" <=>
            \/ ret.batch_size > SplitSize("train")
            \/ SplitSize("test") > 1 /\ ret.batch_size > SplitSize("test")
            \/ SplitSize("validation") > 1
                    /\ ret.batch_size > SplitSize("validation")
        /\ pc = "raised" => classifier = None /\ ret.error = "AssertionError"
        /\ pc = "constructed" => classifier.batch_size = ret.batch_size

\* A batch of 2 on splits of 3, 1 and 0 examples: the small splits are not
\* checked and the constructor goes through.
C15_Witness ==
    /\ pc = "constructed"
    /\ ret.batch_size = 2
    /\ SplitSize("train") = 3
    /\ SplitSize("test") = 1
    /\ SplitSize("validation") = 0

-----------------------------------------------------------------------------
(* A DoubleStepClassifier whose methods are called in any order: nothing in *)
(* load_from_arrays or train looks at what was called before.               *)

ReloadInputs == {ScenarioA}

\* load_from_arrays on an instance that already holds a dataset: dataset,
\* classes and unique_hl_labels are rebound, low_level_models is not touched.
LoadAgain ==
    /\ pc \in {"loaded", "done", "raised"}
    /\ \E a \in ReloadInputs :
        /\ dataset' = Loaded(a).dataset
        /\ classes' = Loaded(a).classes
        /\ unique_hl_labels' = Loaded(a).unique_hl_labels
        /\ origin' = OriginOf(a)
    /\ pc' = "loaded"
    /\ UNCHANGED <<low_level_models, new_dataset, loopVars, ret, traversal,
                   epoch, splitVars, trainVars>>

\* train(classifier_factory) on an instance whose train() has ended before.
TrainAgain ==
    /\ pc \in {"done", "raised"}
    /\ \E f \in Factories : classifier_factory' = f
    /\ loop_i' = 1
    /\ pc' = "loop"
    /\ UNCHANGED <<loadVars, low_level_models, hl_label, new_dataset,
                   classifier, visited, ret, traversal, epoch, splitVars,
                   trainVars>>

\* train(classifier_factory) before any load: self.unique_hl_labels is None
\* and "self.unique_hl_labels.shape[0]" raises.
TrainUnloaded ==
    /\ pc = "unloaded"
    /\ ret' = [kind |-> "raise", error |-> "AttributeError"]
    /\ UNCHANGED <<pc, loadVars, low_level_models, new_dataset, loopVars,
                   traversal, epoch, splitVars, trainVars>>

NextReuse ==
    \/ Next
    \/ LoadAgain
    \/ TrainAgain
    \/ TrainUnloaded

SpecReuse == Init /\ [][NextReuse]_vars

\* C16: the instance goes unloaded -> loaded -> trained and never back: the
\* training loop is entered from loaded only, a trained instance stays
\* trained, and the dataset is not rebound while models are kept.
C16_Step ==
    /\ (pc' = "loop" /\ pc # "loop") => pc \in {"loaded", "train_classifier"}
    /\ pc = "loaded" => pc' # "unloaded"
    /\ pc = "done" => pc' = "done"
    /\ (dataset' # dataset /\ low_level_models # <<>>)
            => low_level_models' = <<>>

C16_NoTransitionBack == [][C16_Step]_vars

-----------------------------------------------------------------------------
(* The class tables: load_from_arrays followed by create_train_dataset, on  *)
(* arrays whose label strings are not their own codes.                      *)

TableLabels == {0, 2}

TableInputs ==
    {Arrays(tr, te, va) : tr, te, va \in SeqsUpTo(TableLabels, MaxSplit)}

InitTables == Init

\* load_from_arrays(x_matrix, hl_labels, ll_labels, ...); ret keeps the
\* arrays of the call.
LoadArrays ==
    /\ pc = "unloaded"
    /\ \E a \in TableInputs :
        /\ dataset' = Loaded(a).dataset
        /\ classes' = Loaded(a).classes
        /\ unique_hl_labels' = Loaded(a).unique_hl_labels
        /\ origin' = OriginOf(a)
        /\ ret' = [kind |-> "load_from_arrays", arrays |-> a]
    /\ pc' = "loaded"
    /\ UNCHANGED <<low_level_models, new_dataset, loopVars, traversal, epoch,
                   splitVars, trainVars>>

\* new_dataset = create_train_dataset(hl_label) for one coarse label.
CreateDataset ==
    /\ pc = "loaded"
    /\ \E target_label \in Range(unique_hl_labels) :
        /\ hl_label' = target_label
        /\ new_dataset' = CreateTrainDataset(dataset, classes, target_label)
        /\ visited' = visited \cup {target_label}
    /\ UNCHANGED <<pc, loadVars, low_level_models, classifier_factory, loop_i,
                   classifier, ret, traversal, epoch, splitVars, trainVars>>

NextTables ==
    \/ LoadArrays
    \/ CreateDataset

SpecTables == InitTables /\ [][NextTables]_vars

\* The label column of a level in the arrays of the call.
LabelColumn(a, level) == IF level = 0 THEN a.hl_labels ELSE a.ll_labels

\* Every row of every split of ds carries, at the level, the code that the
\* table tbl decodes to the label string of that example in the arrays a.
CodesDecode(ds, tbl, a, level) ==
    \A n \in SplitNames :
        \A k \in DOMAIN ds.datasets[n].labels :
            tbl[level + 1][ds.datasets[n].labels[k][level + 1] + 1]
                = LabelColumn(a, level)[ds.datasets[n].data[k]]

\* C17: the class table of each level holds the distinct label strings of
\* the whole label column in sorted order, a code is the 0-based rank in it,
\* every split decodes through it to the original strings, and a sub-dataset
\* of create_train_dataset carries the same tables and the same output_size.
C17_ClassTablesShared ==
    pc = "loaded" =>
        \A level \in {0, 1} :
            LET a == ret.arrays
                tbl == classes[level + 1]
            IN  /\ Range(tbl) = Range(LabelColumn(a, level))
                /\ \A i, j \in DOMAIN tbl : i < j => tbl[i] < tbl[j]
                /\ dataset.classes = classes
                /\ CodesDecode(dataset, classes, a, level)
                /\ visited # {} /\ new_dataset # None =>
                    /\ new_dataset.classes = dataset.classes
                    /\ output_size(new_dataset, level)
                            = output_size(dataset, level)
                    /\ CodesDecode(new_dataset, new_dataset.classes, a, level)

\* A sub-dataset for the label string 2 (code 1), which lacks one of the fine
\* classes of its parent.
C17_Witness ==
    /\ pc = "loaded"
    /\ visited # {}
    /\ hl_label = 2
    /\ new_dataset # None
    /\ output_size(new_dataset, 1) = 4
    /\ Cardinality({new_dataset.datasets[n].labels[k][2] :
            n \in SplitNames, k \in 1..2}) < 4
    /\ \E k \in 1..2 : new_dataset.datasets["train"].labels[k] = <<1, 3>>

\* The positions of the parent split whose example has the coarse label
\* string label in the arrays of the call.
Matching(a, n, label) ==
    {k \in DOMAIN dataset.datasets[n].labels :
        a.hl_labels[dataset.datasets[n].data[k]] = label}

\* The position of the example x in the parent split.
PositionIn(n, x) ==
    CHOOSE k \in DOMAIN dataset.datasets[n].data :
        dataset.datasets[n].data[k] = x

\* C18: each split of the Dataset of create_train_dataset(target_label) is
\* exactly the rows of the parent's same-named split whose coarse label is
\* target_label, each once, with its labels, in the parent's order.
C18_SubDatasetKeepsSplits ==
    (pc = "loaded" /\ visited # {} /\ new_dataset # None) =>
        \A n \in SplitNames :
            LET a == ret.arrays
                sub == new_dataset.datasets[n]
                parent == dataset.datasets[n]
                matching == Matching(a, n, hl_label)
            IN  /\ Len(sub.data) = Cardinality(matching)
                /\ Len(sub.labels) = Len(sub.data)
                /\ Range(sub.data) = {parent.data[k] : k \in matching}
                /\ \A i \in DOMAIN sub.data :
                        sub.labels[i] = parent.labels[PositionIn(n, sub.data[i])]
                /\ \A i, j \in DOMAIN sub.data :
                        i < j => PositionIn(n, sub.data[i])
                                    < PositionIn(n, sub.data[j])

\* A sub-dataset whose parent has, in every split, rows of the other coarse
\* label before or between the rows that were kept.
C18_Witness ==
    /\ pc = "loaded"
    /\ visited # {}
    /\ new_dataset # None
    /\ \A n \in SplitNames :
        /\ num_examples(new_dataset, n) = 2
        /\ num_examples(dataset, n) = 3
        /\ dataset.datasets[n].labels[3][1] = dataset.datasets[n].labels[1][1]

-----------------------------------------------------------------------------
(* The reference scenario of DoubleStepClassifierTest *)

\* create_train_dataset('1') has been called on the arrays of setUp.
ScenarioALabel1 ==
    /\ 1 \in visited
    /\ hl_label = 1
    /\ Len(origin) = Len(ScenarioA.x_matrix)
    /\ dataset = Loaded(ScenarioA).dataset

\* The splits of the loaded dataset with fewer than 2 rows of the label.
BelowFloor(label) ==
    {n \in SplitNames : FilteredCount(n, label) < MinInstances}

\* C19 (as claimed): in scenario A create_train_dataset('1') is null because
\* the validation split has exactly 1 row with coarse label '1'.
C19_NullForValidationCount ==
    ScenarioALabel1 =>
        /\ new_dataset = None
        /\ FilteredCount("validation", 1) = 1

\* C19 (amended): in scenario A create_train_dataset('1') is null because
\* the test split has exactly 1 row with coarse label '1'; the train and the
\* validation split have 2 each.
C19_NullForTestCount ==
    ScenarioALabel1 =>
        /\ new_dataset = None
        /\ FilteredCount("test", 1) = 1
        /\ FilteredCount("train", 1) = 2
        /\ FilteredCount("validation", 1) = 2
        /\ BelowFloor(1) = {"test"}

\* train() has skipped label '1' of scenario A after training label '0'.
C19_Witness ==
    /\ ScenarioALabel1
    /\ pc = "loop"
    /\ new_dataset = None
    /\ DOMAIN low_level_models = {0}

-----------------------------------------------------------------------------
(* Degenerate splits *)

\* The index list load_from_arrays was given for a split.
IndicesOf(a, n) ==
    CASE n = "train" -> a.train_indices
      [] n = "test" -> a.test_indices
      [] n = "validation" -> a.validation_indices

\* C20 (as claimed): load_from_arrays with an empty test or validation index
\* list binds a Dataset whose split of that name has 0 feature rows and 0
\* label rows, and num_examples of it is 0.
C20_EmptySplitIsEmpty ==
    pc = "loaded" =>
        \A n \in {"test", "validation"} :
            Len(IndicesOf(ret.arrays, n)) = 0 =>
                /\ Len(dataset.datasets[n].data) = 0
                /\ Len(dataset.datasets[n].labels) = 0
                /\ num_examples(dataset, n) = 0

-----------------------------------------------------------------------------
(* The second entry point: load_from_files, then train *)

\* load_from_files(dataset_filepath, labels_filepath, labels, ...): binds
\* self.dataset and takes self.classes from it; self.unique_hl_labels is
\* not assigned and keeps the None of __init__.
LoadFromFiles ==
    /\ pc = "unloaded"
    /\ \E a \in LoadInputs :
        /\ dataset' = Loaded(a).dataset
        /\ classes' = Loaded(a).dataset.classes
        /\ origin' = OriginOf(a)
    /\ pc' = "loaded_from_files"
    /\ UNCHANGED <<unique_hl_labels, low_level_models, new_dataset, loopVars,
                   ret, traversal, epoch, splitVars, trainVars>>

\* train(classifier_factory) after load_from_files: the loop header reads
\* self.unique_hl_labels.shape[0] of None and raises.
TrainFromFiles ==
    /\ pc = "loaded_from_files"
    /\ \E f \in Factories : classifier_factory' = f
    /\ unique_hl_labels = None
    /\ ret' = [kind |-> "raise", error |-> "AttributeError"]
    /\ pc' = "raised"
    /\ UNCHANGED <<loadVars, low_level_models, new_dataset, loop_i, hl_label,
                   classifier, visited, traversal, epoch, splitVars,
                   trainVars>>

NextFiles ==
    \/ Next
    \/ LoadFromFiles
    \/ TrainFromFiles

SpecFiles == Init /\ [][NextFiles]_vars

\* C21 (as claimed): after a load by either entry point, a train(factory)
\* call that has ended has visited every distinct coarse label of the full
\* dataset, and has stored a classifier for exactly the visited labels whose
\* filtered dataset is not null.
C21_TrainVisitsEveryLabel ==
    pc \in {"done", "raised"} =>
        /\ visited = Range(classes[1])
        /\ DOMAIN low_level_models = {l \in visited : Supported(l)}

-----------------------------------------------------------------------------
(* The reporting intervals of MultilayerPerceptron.train *)

\* The interval of the validation checks of the classifier that is run.
CheckInterval == 4 * classifier.loss_report

\* C22: the pass e of the training loop records the loss iff e > 0 and e is
\* a multiple of loss_report, and evaluates and records the validation
\* accuracy iff e > 0 and e is a multiple of K, a strict multiple of
\* loss_report; so no check is made at pass 0 or off those passes, and every
\* pass with a check records the loss as well.
C22_Step ==
    (pc = "train" /\ epoch' = epoch + 1) =>
        /\ CheckInterval > classifier.loss_report
        /\ CheckInterval % classifier.loss_report = 0
        /\ IF epoch > 0 /\ epoch % classifier.loss_report = 0
           THEN train_loss_record' = Append(train_loss_record, epoch)
           ELSE train_loss_record' = train_loss_record
        /\ IF epoch > 0 /\ epoch % CheckInterval = 0
           THEN /\ Len(validation_accuracy_record')
                        = Len(validation_accuracy_record) + 1
                /\ evaluated' = Append(evaluated, "validation")
                /\ Len(train_loss_record') = Len(train_loss_record) + 1
           ELSE /\ validation_accuracy_record' = validation_accuracy_record
                /\ evaluated' = evaluated

C22_ReportingIntervals == [][C22_Step]_vars

\* With loss_report 2, after the passes 0..16: eight losses, two checks.
C22_Witness ==
    /\ pc = "train"
    /\ classifier.loss_report = 2
    /\ epoch = 17
    /\ train_loss_record = <<2, 4, 6, 8, 10, 12, 14, 16>>
    /\ Len(validation_accuracy_record) = 2
    /\ evaluated = <<"validation", "validation">>

-----------------------------------------------------------------------------
(* test_results *)

\* The classes of the classifier's level that no row of the test split has.
Unsupported ==
    {k \in 1..output_size(dataset, classifier.cl_iteration) :
        \A i \in DOMAIN dataset.datasets["test"].labels :
            dataset.datasets["test"].labels[i][classifier.cl_iteration + 1]
                # k - 1}

\* C23: until train() has evaluated the test split test_results is empty;
\* afterwards it holds the accuracy row and then one precision / recall /
\* fscore row for every class of the class table of the classifier's level,
\* in the order of the table, the classes without a test row included, with
\* metrics 0.
C23_TestResultsRowPerClass ==
    /\ pc \in {"train", "finished"} => test_results = <<>>
    /\ pc = "trained" =>
        LET cls == dataset.classes[classifier.cl_iteration + 1]
        IN  /\ Len(test_results) = 1 + Len(cls)
            /\ DOMAIN test_results[1] = {"accuracy"}
            /\ \A k \in DOMAIN cls :
                /\ DOMAIN test_results[k + 1]
                        = {"class", "precision", "recall", "fscore"}
                /\ test_results[k + 1].class = cls[k]
            /\ \A k \in Unsupported :
                /\ test_results[k + 1].recall[1] = 0
                /\ test_results[k + 1].fscore[1] = 0

\* A classifier of the last level has been tested: the test split has no row
\* of the second class, which was predicted once and has its row.
C23_Witness ==
    /\ pc = "trained"
    /\ classifier.cl_iteration = 2
    /\ Unsupported = {2}
    /\ Len(test_results) = 3
    /\ test_results[3] = [class |-> 1, precision |-> <<0, 1>>,
                          recall |-> <<0, 1>>, fscore |-> <<0, 1>>]
    /\ test_results[1].accuracy = <<0, 1>>

-----------------------------------------------------------------------------
(* StanfordPreprocesser.preprocess: filter_labels, split_corpus, write_splits *)

\* Mutant: only an empty train partition is refused.
Infeasible_TrainOnly(train_index, test_index) == Len(train_index) = 0

\* "if not len(train_index) or not len(test_index)"
Infeasible(train_index, test_index) ==
    Len(train_index) = 0 \/ Len(test_index) = 0

\* split_corpus on the labels and documents filter_labels left: the splitter
\* runs over all of self.labels; either the ValueError, with the three
\* *_doc_index attributes still None, or the three lists of documents.
SplitCorpus ==
    /\ pc = "filtered"
    /\ \E split \in get_splitted_dataset_indices(ret.labels,
                        Iota(0, Len(ret.labels)), sizes) :
        IF Infeasible(split[1], split[2])
        THEN /\ pc' = "raised"
             /\ ret' = [kind |-> "raise",
                        error |-> "ValueError",
                        train_index |-> split[1],
                        test_index |-> split[2],
                        validation_index |-> split[3],
                        train_doc_index |-> None,
                        test_doc_index |-> None,
                        validation_doc_index |-> None,
                        written |-> None]
        ELSE /\ pc' = "split"
             /\ ret' = [kind |-> "split_corpus",
                        train_index |-> split[1],
                        test_index |-> split[2],
                        validation_index |-> split[3],
                        train_doc_index |->
                            KeepDocuments(ret.documents, split[1], 1),
                        test_doc_index |->
                            KeepDocuments(ret.documents, split[2], 1),
                        validation_doc_index |->
                            KeepDocuments(ret.documents, split[3], 1),
                        written |-> None]
    /\ UNCHANGED <<loadVars, low_level_models, new_dataset, loopVars,
                   traversal, epoch, splitVars, trainVars>>

\* write_splits: split_indices.pickle and the three .conll files.
WriteSplits ==
    /\ pc = "split"
    /\ ret' = [ret EXCEPT !.kind = "write_splits",
                          !.written = <<ret.train_doc_index,
                                        ret.test_doc_index,
                                        ret.validation_doc_index>>]
    /\ pc' = "written"
    /\ UNCHANGED <<loadVars, low_level_models, new_dataset, loopVars,
                   traversal, epoch, splitVars, trainVars>>

NextCorpus ==
    \/ FilterLabels
    \/ SplitCorpus
    \/ WriteSplits

SpecCorpus == InitSplit /\ [][NextCorpus]_vars

\* C24: split_corpus raises its ValueError exactly when the train or the
\* test partition of the splitter is empty, with none of train_doc_index,
\* test_doc_index and validation_doc_index assigned; after the error
\* preprocess() does nothing more: nothing is written, nothing is retried.
C24_Step ==
    /\ pc = "filtered" =>
        /\ pc' \in {"raised", "split"}
        /\ pc' = "raised" <=>
                (Len(ret'.train_index) = 0 \/ Len(ret'.test_index) = 0)
        /\ pc' = "raised" =>
            /\ ret'.error = "ValueError"
            /\ ret'.train_doc_index = None
            /\ ret'.test_doc_index = None
            /\ ret'.validation_doc_index = None
            /\ ret'.written = None
    /\ pc # "raised"
    /\ pc' = "written" => pc = "split"

C24_InfeasibleSplitFails == [][C24_Step]_vars

\* The splitter gave rows to train and none to test: the error.
C24_Witness ==
    /\ pc = "raised"
    /\ Len(ret.train_index) > 0
    /\ Len(ret.test_index) = 0
    /\ ret.train_doc_index = None

-----------------------------------------------------------------------------
(* Every call a Dataset takes after its construction *)

\* dataset.num_examples(dataset_name)
NumExamples ==
    /\ pc = "loaded"
    /\ \E dataset_name \in SplitNames :
        ret' = [kind |-> "num_examples",
                dataset_name |-> dataset_name,
                value |-> num_examples(dataset, dataset_name)]
    /\ UNCHANGED <<pc, loadVars, low_level_models, new_dataset, loopVars,
                   traversal, epoch, splitVars, trainVars>>

\* dataset.output_size(cl_iteration)
OutputSize ==
    /\ pc = "loaded"
    /\ \E cl_iteration \in {0, 1} :
        ret' = [kind |-> "output_size",
                cl_iteration |-> cl_iteration,
                value |-> output_size(dataset, cl_iteration)]
    /\ UNCHANGED <<pc, loadVars, low_level_models, new_dataset, loopVars,
                   traversal, epoch, splitVars, trainVars>>

\* dataset.dataset_labels(dataset_name, cl_iteration), on a split with rows.
DatasetLabels ==
    /\ pc = "loaded"
    /\ \E dataset_name \in SplitNames, cl_iteration \in {0, 1} :
        /\ num_examples(dataset, dataset_name) > 0
        /\ ret' = [kind |-> "dataset_labels",
                   dataset_name |-> dataset_name,
                   cl_iteration |-> cl_iteration,
                   value |-> dataset_labels(dataset, dataset_name,
                                            cl_iteration)]
    /\ UNCHANGED <<pc, loadVars, low_level_models, new_dataset, loopVars,
                   traversal, epoch, splitVars, trainVars>>

NextFrame ==
    \/ NextBatch
    \/ Traverse
    \/ CallCreateTrainDataset
    \/ NumExamples
    \/ OutputSize
    \/ DatasetLabels

SpecFrame == InitData /\ [][NextFrame]_vars

\* C25: a call on a constructed Dataset changes nothing but, for next_batch,
\* the order of the train rows, the cursor and the epoch counter: the test
\* and validation rows and labels, the class table and the split sizes stay,
\* the train rows are reordered only, and every other call (create_train_dataset
\* included) leaves the whole Dataset as it was.
C25_Step ==
    /\ \A n \in {"test", "validation"} :
            dataset'.datasets[n] = dataset.datasets[n]
    /\ dataset'.classes = dataset.classes
    /\ classes' = classes
    /\ \A n \in SplitNames : num_examples(dataset', n) = num_examples(dataset, n)
    /\ IsPermutation(dataset.train_dataset, dataset'.train_dataset)
    /\ IsPermutation(dataset.train_labels, dataset'.train_labels)
    /\ IsPermutation(dataset.datasets["train"].data, dataset'.train_dataset)
    /\ ret'.kind \notin {"next_batch", "raise"} => dataset' = dataset

C25_OnlySamplerMutates == [][C25_Step]_vars

\* dataset_labels was read after next_batch had reshuffled the train rows
\* into another order.
C25_Witness ==
    /\ ret.kind = "dataset_labels"
    /\ ret.dataset_name = "train"
    /\ dataset.epochs_completed = 1
    /\ dataset.index_in_epoch = 2
    /\ num_examples(dataset, "train") = 3
    /\ dataset.train_dataset # dataset.datasets["train"].data

-----------------------------------------------------------------------------
(* The batch size MLPFactory chooses *)

\* C26 (as claimed): for every Dataset create_train_dataset returns inside
\* train(), the batch size of MLPFactory, min(train_count, 2000,
\* validation_count), passes check_batch_size, and get_classifier of
\* MLPFactory never ends in the AssertionError of that check.
C26_FactoryBatchSizeAccepted ==
    /\ (visited # {} /\ new_dataset # None) =>
            check_batch_size(FactoryBatchSize(new_dataset), new_dataset)
    /\ pc = "raised" => ret.error # "AssertionError"

-----------------------------------------------------------------------------
(* The cursor and the epoch counter of next_batch *)

\* C27: a next_batch call on a train split of N rows either returns, and then
\* its batch_size is at most N, the cursor is in 1..N, the feature block and
\* the label block have batch_size rows each and the epoch counter went up by
\* 1 if the call reshuffled and stayed otherwise; or it fails, and then its
\* batch_size (where the cursor was left) is larger than N.
C27_Step ==
    dataset' # dataset =>
        LET N == num_examples(dataset, "train")
        IN  /\ ret'.kind \in {"next_batch", "raise"}
            /\ dataset'.epochs_completed >= dataset.epochs_completed
            /\ ret'.kind = "next_batch" =>
                /\ ret'.batch_size >= 1
                /\ ret'.batch_size <= N
                /\ dataset'.index_in_epoch > 0
                /\ dataset'.index_in_epoch <= N
                /\ Len(ret'.data) = ret'.batch_size
                /\ Len(ret'.labels) = ret'.batch_size
                /\ dataset'.epochs_completed =
                        IF dataset.index_in_epoch + ret'.batch_size > N
                        THEN dataset.epochs_completed + 1
                        ELSE dataset.epochs_completed
                /\ dataset'.train_dataset # dataset.train_dataset
                        => dataset'.epochs_completed
                                = dataset.epochs_completed + 1
            /\ ret'.kind = "raise" =>
                /\ ret'.error = "AssertionError"
                /\ dataset'.index_in_epoch > N

C27_CursorAndEpochs == [][C27_Step]_vars

\* A call with batch_size N = 3 on a fresh Dataset: the cursor is N and no
\* epoch was counted.
C27_Witness ==
    /\ ret.kind = "next_batch"
    /\ ret.batch_size = 3
    /\ num_examples(dataset, "train") = 3
    /\ dataset.index_in_epoch = 3
    /\ dataset.epochs_completed = 0

-----------------------------------------------------------------------------
(* low_level_models during a run of train() *)

\* C28, in every state of a run: every key of low_level_models is a coarse
\* label of the loaded dataset that the loop has reached, whose filtered
\* dataset is not null and whose classifier is not the one still being built
\* or trained.
C28_State ==
    /\ \A l \in DOMAIN low_level_models :
        /\ l \in Range(unique_hl_labels)
        /\ l \in visited
        /\ Supported(l)
        /\ low_level_models[l].kind = "MultilayerPerceptron"
        /\ low_level_models[l].experiment_name = l
    /\ pc \in {"get_classifier", "train_classifier"} =>
            hl_label \notin DOMAIN low_level_models

\* C28, in every step: an entry is never removed or replaced, and the only
\* step that adds one is the return of classifier.train(), which adds the
\* label of the loop under the classifier just trained.
C28_Step ==
    /\ \A l \in DOMAIN low_level_models :
        /\ l \in DOMAIN low_level_models'
        /\ low_level_models'[l] = low_level_models[l]
    /\ DOMAIN low_level_models' # DOMAIN low_level_models =>
        /\ pc = "train_classifier"
        /\ pc' = "loop"
        /\ DOMAIN low_level_models' = DOMAIN low_level_models \cup {hl_label}
        /\ low_level_models'[hl_label] = classifier

\* C28: at every point of a run of train(), one cut short by an exception
\* included, the keys of low_level_models are coarse labels with a non-null
\* filtered dataset whose classifier has finished training; no key is added
\* earlier and no entry is removed or replaced.
C28_ModelsOnlyGrow == []C28_State /\ [][C28_Step]_vars

\* The run was cut short while the classifier of the second label was being
\* trained: the model of the first label is kept, the second has no entry.
C28_Witness ==
    /\ pc = "raised"
    /\ ret.error = "IOError"
    /\ visited = {0, 1}
    /\ hl_label = 1
    /\ new_dataset # None
    /\ DOMAIN low_level_models = {0}

-----------------------------------------------------------------------------
(* split_dataset, then the loader of the Dataset reads what was saved *)

\* a[indices] of numpy raises IndexError for an index outside 0..len(a)-1.
InRange(a, indices) ==
    \A k \in DOMAIN indices : indices[k] >= 0 /\ indices[k] < Len(a)

\* __load_data__: labels = labels[filtered_indices], then one
\* integer_labels[..._indices] per split (the label stands for its code).
LoadData ==
    /\ pc = "saved"
    /\ LET filtered == Take(yago_labels, ret.filtered_indices)
       IN  IF /\ InRange(filtered, ret.train_indices)
              /\ InRange(filtered, ret.test_indices)
              /\ InRange(filtered, ret.validation_indices)
           THEN /\ pc' = "loaded_data"
                /\ ret' = [kind |-> "load_data",
                           filtered_indices |-> ret.filtered_indices,
                           train_indices |-> ret.train_indices,
                           test_indices |-> ret.test_indices,
                           validation_indices |-> ret.validation_indices,
                           train_labels |-> Take(filtered, ret.train_indices),
                           test_labels |-> Take(filtered, ret.test_indices),
                           validation_labels |->
                                Take(filtered, ret.validation_indices)]
           ELSE /\ pc' = "raised"
                /\ ret' = [kind |-> "raise", error |-> "IndexError"]
    /\ UNCHANGED <<loadVars, low_level_models, new_dataset, loopVars,
                   traversal, epoch, splitVars, trainVars>>

NextLoader ==
    \/ SplitDataset
    \/ LoadData

SpecLoader == InitSplit /\ [][NextLoader]_vars

\* The three index arrays that were saved, one after the other.
SavedIndices ==
    ret.train_indices \o ret.test_indices \o ret.validation_indices

\* C29: every index that split_dataset saves in train_indices, test_indices
\* and validation_indices is a position i of the filtered rows,
\* 0 <= i < len(filtered_indices); the loader, which applies them to the
\* rows selected by filtered_indices, never fails on them, and the row it
\* takes for i is the retained row filtered_indices[i], whose label the
\* rare-label filter kept.
C29_SavedIndicesInFilteredRange ==
    /\ pc # "raised"
    /\ pc \in {"saved", "loaded_data"} =>
        \A k \in DOMAIN SavedIndices :
            LET i == SavedIndices[k]
            IN  /\ 0 <= i
                /\ i < Len(ret.filtered_indices)
                /\ LET label == yago_labels[ret.filtered_indices[i + 1] + 1]
                   IN  label = OLabel \/ Count(yago_labels, label) >= MinCount
    /\ pc = "loaded_data" =>
        /\ \A k \in DOMAIN ret.train_indices :
                ret.train_labels[k] = yago_labels[
                    ret.filtered_indices[ret.train_indices[k] + 1] + 1]
        /\ \A k \in DOMAIN ret.test_indices :
                ret.test_labels[k] = yago_labels[
                    ret.filtered_indices[ret.test_indices[k] + 1] + 1]
        /\ \A k \in DOMAIN ret.validation_indices :
                ret.validation_labels[k] = yago_labels[
                    ret.filtered_indices[ret.validation_indices[k] + 1] + 1]

\* The loader has read a split of labels whose first rows were dropped by
\* the filter: the last filtered position is taken and is not the last row
\* number.
C29_Witness ==
    /\ pc = "loaded_data"
    /\ Len(yago_labels) = MaxLabels
    /\ Len(ret.filtered_indices) = 3
    /\ ret.filtered_indices[1] = 2
    /\ \E k \in DOMAIN SavedIndices : SavedIndices[k] = 2
    /\ Len(ret.train_indices) > 0
    /\ Len(ret.test_indices) > 0

-----------------------------------------------------------------------------
(* How many validation checks a run of train() can make *)

\* floor((training_epochs - 1) / (4 * loss_report)) of the classifier run.
CheckBound ==
    (classifier.training_epochs - 1) \div (4 * classifier.loss_report)

\* The classifier is the one MLPFactory builds, with the default budget.
IsDefaultRun ==
    /\ classifier.training_epochs = DefaultRun[1]
    /\ classifier.loss_report = DefaultRun[2]
    /\ classifier.cl_iteration = DefaultRun[3]

\* With the defaults at most 9 checks are recorded, and a plateau that ends
\* the loop is the one of 5 checks at 0.95 or more.
DefaultRunPlateau ==
    IsDefaultRun =>
        /\ Len(validation_accuracy_record) <= 9
        /\ (pc = "finished" /\ ret.message
                    = "Validation accuracy unchanged for a large period") =>
            /\ Len(validation_accuracy_record) >= 5
            /\ validation_accuracy_record[Len(validation_accuracy_record)]
                    >= 950
            /\ Span(validation_accuracy_record, 5) < 10

====
